---- MODULE Spec2Model ----
(***************************************************************************)
(* Hide From The Monster: the simulation tick of src/game.js (line of      *)
(* sight, cone breath, shield) and of the grid-navigation variant, the     *)
(* second program of src/unnamed/part_000 (A* paths, last-seen memory).    *)
(*                                                                         *)
(* Number representation.  The program computes in floating point; the     *)
(* model computes in integers:                                             *)
(*   - time is in milliseconds, as the timestamps ts of tick(ts) are; the  *)
(*     program's dt (seconds) is kept as dt in ms, and every rate per      *)
(*     second times dt is therefore in thousandths;                        *)
(*   - stamina and shield durability are in thousandths of a point         *)
(*     (100 points = 100000), so that rate * dt is exact;                  *)
(*   - lengths are in grid units of about 5 px on a reduced arena: the     *)
(*     canvas size W x H, the wall layout and the entity sizes, speeds and *)
(*     distance thresholds are scaled down together so that one tick of    *)
(*     33 ms moves an entity by one or two units;                          *)
(*   - unit vectors (norm) are in thousandths; a displacement v * dt is    *)
(*     rounded to the nearest unit.                                        *)
(* Math.random() is a nondeterministic choice from a small set.            *)
(***************************************************************************)
EXTENDS Integers, Sequences, FiniteSets, TLC

VARIABLES player, monster, flames, startTs, lastTs, elapsed, state, status,
          clock, nTicks, nResets, ev, hist

vars == <<player, monster, flames, startTs, lastTs, elapsed, state, status,
          clock, nTicks, nResets, ev, hist>>

(* ------------------------------ bounds -------------------------------- *)
MaxTicks == 7
MaxLateTicks == 8
MaxMoves == 3
MaxNavTicks == 6
MaxPatrolTicks == 5
MaxCoord == 5
MaxPlayerSteps == 1
MaxHuntTicks == 1
MaxBreathTicks == 5
MaxMeetTicks == 7
MaxShieldTicks == 9
MaxSamples == 3
StaminaStep == 500
MaxResets == 1

(* --------------------------- canvas, goal ----------------------------- *)
W == 24
H == 18
GOAL_SECONDS == 30
DT_CAP == 33

(* ------------------------------ helpers ------------------------------- *)
Min(a, b) == IF a < b THEN a ELSE b
Max(a, b) == IF a > b THEN a ELSE b
Abs(a) == IF a < 0 THEN -a ELSE a

\* a / b rounded to the nearest integer, halves away from zero (b > 0)
RoundDiv(a, b) == IF a >= 0 THEN (2 * a + b) \div (2 * b)
                            ELSE -((2 * (-a) + b) \div (2 * b))

RECURSIVE SqrtIter(_, _, _)
SqrtIter(n, lo, hi) ==
  IF lo >= hi THEN lo
  ELSE LET mid == (lo + hi + 1) \div 2
       IN IF mid * mid <= n THEN SqrtIter(n, mid, hi) ELSE SqrtIter(n, lo, mid - 1)

\* floor of the square root
ISqrt(n) == SqrtIter(n, 0, Min(n, 46340))

clampNone(v, lo, hi) == v
clamp(v, lo, hi) == Max(lo, Min(hi, v))

\* Math.hypot in thousandths
len(x, y) == ISqrt((x * x + y * y) * 1000000)

\* unit vector in thousandths; the zero vector stays zero (l || 1)
norm(x, y) ==
  LET l0 == len(x, y)
      l == IF l0 = 0 THEN 1000 ELSE l0
  IN [x |-> RoundDiv(x * 1000000, l), y |-> RoundDiv(y * 1000000, l)]

(* ----------------------------- geometry ------------------------------- *)
rect(x, y, w, h) == [x |-> x, y |-> y, w |-> w, h |-> h]

intersectsAABBAlways(a, b) == TRUE
intersectsAABBNever(a, b) == FALSE
intersectsAABB(a, b) ==
  /\ a.x < b.x + b.w
  /\ a.x + a.w > b.x
  /\ a.y < b.y + b.h
  /\ a.y + a.h > b.y

\* the mover (any record with x, y, w, h) pushed out of stat on the axis of
\* the smaller overlap
resolveStaticCollision(mover, stat) ==
  IF ~intersectsAABB(mover, stat) THEN mover
  ELSE
    LET ax1 == mover.x
        ax2 == mover.x + mover.w
        ay1 == mover.y
        ay2 == mover.y + mover.h
        bx1 == stat.x
        bx2 == stat.x + stat.w
        by1 == stat.y
        by2 == stat.y + stat.h
        overlapX == Min(ax2, bx2) - Max(ax1, bx1)
        overlapY == Min(ay2, by2) - Max(ay1, by1)
    IN IF overlapX < overlapY
       THEN IF ax1 < bx1 THEN [mover EXCEPT !.x = @ - overlapX]
                         ELSE [mover EXCEPT !.x = @ + overlapX]
       ELSE IF ay1 < by1 THEN [mover EXCEPT !.y = @ - overlapY]
                         ELSE [mover EXCEPT !.y = @ + overlapY]

pointInRect(px, py, r) ==
  /\ px >= r.x
  /\ px <= r.x + r.w
  /\ py >= r.y
  /\ py <= r.y + r.h

\* Liang-Barsky clipping; t0 and t1 are the fractions t0n/t0d and t1n/t1d
\* with positive denominators, q[i]/p[i] is compared by cross-multiplying.
\* The result is "out" (return false) or the clipped range.
RECURSIVE clipLoop(_, _, _, _)
clipLoop(i, p, q, t) ==
  IF i > 4 THEN TRUE
  ELSE IF p[i] = 0
       THEN IF q[i] < 0 THEN FALSE ELSE clipLoop(i + 1, p, q, t)
       ELSE LET tn == IF p[i] < 0 THEN -q[i] ELSE q[i]
                td == Abs(p[i])
            IN IF p[i] < 0
               THEN IF tn * t.t1d > t.t1n * td THEN FALSE
                    ELSE IF tn * t.t0d > t.t0n * td
                         THEN clipLoop(i + 1, p, q, [t EXCEPT !.t0n = tn, !.t0d = td])
                         ELSE clipLoop(i + 1, p, q, t)
               ELSE IF tn * t.t0d < t.t0n * td THEN FALSE
                    ELSE IF tn * t.t1d < t.t1n * td
                         THEN clipLoop(i + 1, p, q, [t EXCEPT !.t1n = tn, !.t1d = td])
                         ELSE clipLoop(i + 1, p, q, t)

segmentIntersectsRectEnds(x1, y1, x2, y2, r) ==
  pointInRect(x1, y1, r) \/ pointInRect(x2, y2, r)
segmentIntersectsRect(x1, y1, x2, y2, r) ==
  IF pointInRect(x1, y1, r) \/ pointInRect(x2, y2, r) THEN TRUE
  ELSE
    LET dx == x2 - x1
        dy == y2 - y1
        p == <<-dx, dx, -dy, dy>>
        q == <<x1 - r.x, (r.x + r.w) - x1, y1 - r.y, (r.y + r.h) - y1>>
    IN clipLoop(1, p, q, [t0n |-> 0, t0d |-> 1, t1n |-> 1, t1d |-> 1])

\* border walls and two interior walls that share a corner
walls == <<
  rect(0, 0, W, 2),
  rect(0, H - 2, W, 2),
  rect(0, 0, 2, H),
  rect(W - 2, 0, 2, H),
  rect(9, 5, 8, 2),
  rect(9, 5, 2, 4)
>>

hasLineOfSightFrom(ax, ay, bx, by) ==
  \A i \in 1..Len(walls) : ~pointInRect(ax, ay, walls[i])
hasLineOfSight(ax, ay, bx, by) ==
  \A i \in 1..Len(walls) : ~segmentIntersectsRect(ax, ay, bx, by, walls[i])

(* ------------------------------ entities ------------------------------ *)
\* src: x 60, y 60, w 18, h 26, speed 210 px/s; stamina and durability in
\* thousandths of a point
playerInit == [
  x |-> 4, y |-> 4, w |-> 2, h |-> 4,
  speed |-> 40,
  sprintMult |-> 165,          \* hundredths: 1.65
  stamina |-> 100000,
  staminaMax |-> 100000,
  staminaDrainPerSec |-> 38,
  staminaRegenPerSec |-> 22,
  shield |-> [
    active |-> FALSE,
    durability |-> 100000,
    max |-> 100000,
    hitCost |-> 26000,
    regenPerSec |-> 14,
    brokenUntil |-> 0,
    breakCooldownMs |-> 2400
  ]
]

\* src: x W - 110, y H - 100, w 34, h 24, speedChase 220, speedPatrol 125
monsterInit == [
  x |-> W - 10, y |-> H - 8, w |-> 4, h |-> 2,
  speedChase |-> 42,
  speedPatrol |-> 24,
  wander |-> [x |-> W \div 2, y |-> H \div 2, until |-> 0],
  breathCooldownMs |-> 900,
  breathDurationMs |-> 700,
  breathActiveUntil |-> 0,
  lastBreathAt |-> 0,
  coneAngle |-> 571            \* milliradians: PI / 5.5
]

\* the world a tick works on
\* (log, did, sees, contact and emitted record what the updates of the tick did)
World == [player |-> player, monster |-> monster, flames |-> flames,
          state |-> state, status |-> status,
          log |-> <<>>, did |-> "", sees |-> FALSE, contact |-> FALSE, emitted |-> 0,
          target |-> [kind |-> "none"]]

(* ------------------------------- motion ------------------------------- *)
RECURSIVE resolveWalls(_, _)
resolveWalls(ent, i) ==
  IF i > Len(walls) THEN ent
  ELSE resolveWalls(resolveStaticCollision(ent, walls[i]), i + 1)

moveEntityNoClamp(ent, vx, vy, dt) ==
  resolveWalls([ent EXCEPT !.x = @ + RoundDiv(vx * dt, 1000000),
                           !.y = @ + RoundDiv(vy * dt, 1000000)], 1)
\* vx, vy: thousandths of a unit per second; dt: ms
moveEntity(ent, vx, vy, dt) ==
  LET e1 == [ent EXCEPT !.x = @ + RoundDiv(vx * dt, 1000000),
                        !.y = @ + RoundDiv(vy * dt, 1000000)]
      e2 == resolveWalls(e1, 1)
  IN [e2 EXCEPT !.x = clamp(e2.x, 0, W - e2.w),
                !.y = clamp(e2.y, 0, H - e2.h)]

(* ------------------------------- player ------------------------------- *)
shieldIsUpWhenHeld(p, now) == p.shield.active
shieldIsUp(p, now) ==
  IF ~p.shield.active THEN FALSE
  ELSE IF now < p.shield.brokenUntil THEN FALSE
  ELSE p.shield.durability > 0

shieldRegenNever(p, dt, now) == p
shieldRegenAlways(p, dt, now) ==
  [p EXCEPT !.shield.durability = clamp(@ + p.shield.regenPerSec * dt, 0, p.shield.max)]
\* the shield regeneration of updatePlayer (only when not broken, not up)
shieldRegen(p, dt, now) ==
  IF now >= p.shield.brokenUntil /\ ~shieldIsUp(p, now)
  THEN [p EXCEPT !.shield.durability =
          clamp(@ + p.shield.regenPerSec * dt, 0, p.shield.max)]
  ELSE p

\* k: the keys held: dx, dy in -1..1 from the arrow keys, sprint (shift),
\* shield (space)
updatePlayerNoFloor(g, dt, now, k) ==
  LET p0 == [g.player EXCEPT !.shield.active = k.shield]
      wantsSprint == k.sprint
      canSprint == wantsSprint /\ p0.stamina > 1000
      moving == (k.dx # 0) \/ (k.dy # 0)
      speed == IF moving /\ canSprint THEN (p0.speed * p0.sprintMult) \div 100
                                      ELSE p0.speed
      p1 == IF moving /\ canSprint
            THEN [p0 EXCEPT !.stamina =
                    Min(@ - p0.staminaDrainPerSec * dt, p0.staminaMax)]
            ELSE [p0 EXCEPT !.stamina =
                    clamp(@ + p0.staminaRegenPerSec * dt, 0, p0.staminaMax)]
      p2 == shieldRegen(p1, dt, now)
      n == norm(k.dx, k.dy)
      p3 == IF moving THEN moveEntity(p2, n.x * speed, n.y * speed, dt) ELSE p2
  IN [g EXCEPT !.player = p3]
updatePlayerDrySprint(g, dt, now, k) ==
  LET p0 == [g.player EXCEPT !.shield.active = k.shield]
      wantsSprint == k.sprint
      canSprint == wantsSprint
      moving == (k.dx # 0) \/ (k.dy # 0)
      speed == IF moving /\ canSprint THEN (p0.speed * p0.sprintMult) \div 100
                                      ELSE p0.speed
      p1 == IF moving /\ canSprint
            THEN [p0 EXCEPT !.stamina =
                    clamp(@ - p0.staminaDrainPerSec * dt, 0, p0.staminaMax)]
            ELSE [p0 EXCEPT !.stamina =
                    clamp(@ + p0.staminaRegenPerSec * dt, 0, p0.staminaMax)]
      p2 == shieldRegen(p1, dt, now)
      n == norm(k.dx, k.dy)
      p3 == IF moving THEN moveEntity(p2, n.x * speed, n.y * speed, dt) ELSE p2
  IN [g EXCEPT !.player = p3]
updatePlayer(g, dt, now, k) ==
  LET p0 == [g.player EXCEPT !.shield.active = k.shield]
      wantsSprint == k.sprint
      canSprint == wantsSprint /\ p0.stamina > 1000
      moving == (k.dx # 0) \/ (k.dy # 0)
      speed == IF moving /\ canSprint THEN (p0.speed * p0.sprintMult) \div 100
                                      ELSE p0.speed
      p1 == IF moving /\ canSprint
            THEN [p0 EXCEPT !.stamina =
                    clamp(@ - p0.staminaDrainPerSec * dt, 0, p0.staminaMax)]
            ELSE [p0 EXCEPT !.stamina =
                    clamp(@ + p0.staminaRegenPerSec * dt, 0, p0.staminaMax)]
      p2 == shieldRegen(p1, dt, now)
      n == norm(k.dx, k.dy)
      p3 == IF moving THEN moveEntity(p2, n.x * speed, n.y * speed, dt) ELSE p2
  IN [g EXCEPT !.player = p3]

(* ------------------------------ monster ------------------------------- *)
wanderOk(x, y) ==
  LET probe == rect(x - 1, y - 1, 2, 2)
  IN \A i \in 1..Len(walls) : ~intersectsAABB(probe, walls[i])

\* r.samples: the points Math.random() yields, attempt i taking
\* samples[i mod Len]; r.dwell: the random part of the dwell time
RECURSIVE pickWanderLoop(_, _, _, _)
pickWanderLoop(i, m, now, r) ==
  IF i >= 40
  THEN [m EXCEPT !.wander = [x |-> W \div 2, y |-> H \div 2, until |-> now + 1000]]
  ELSE LET s == r.samples[(i % Len(r.samples)) + 1]
       IN IF wanderOk(s.x, s.y)
          THEN [m EXCEPT !.wander = [x |-> s.x, y |-> s.y,
                                     until |-> now + 1100 + r.dwell]]
          ELSE pickWanderLoop(i + 1, m, now, r)

pickWanderTargetGivesUp(m, now, r) == pickWanderLoop(40, m, now, r)
pickWanderTarget(m, now, r) == pickWanderLoop(0, m, now, r)

\* cos and sin of a small angle th (milliradians), in thousandths
cosM(th) == 1000 - (th * th) \div 2000
sinM(th) == th

\* dirX, dirY: the aim direction in thousandths; atan2(0, 0) = 0 aims along +x.
\* r.jitter (milliradians), r.mx, r.my (thousandths, 0.75..1.10), r.rad,
\* r.ttl: the values Math.random() yields
emitFlame(i, fromX, fromY, dirX, dirY, now, m, r) ==
  LET count == 9
      speed == 99
      bx == IF dirX = 0 /\ dirY = 0 THEN 1000 ELSE dirX
      by == dirY
      t8 == 2 * i - (count - 1)                 \* t = t8 / (count - 1), -1..1
      off == RoundDiv(t8 * (m.coneAngle \div 2), count - 1) + r.jitter
      ca == RoundDiv(bx * cosM(off) - by * sinM(off), 1000)
      sa == RoundDiv(bx * sinM(off) + by * cosM(off), 1000)
  IN [x |-> fromX + RoundDiv(ca * 2, 1000),
      y |-> fromY + RoundDiv(sa * 2, 1000),
      vx |-> RoundDiv(ca * speed * r.mx, 1000),
      vy |-> RoundDiv(sa * speed * r.my, 1000),
      r |-> r.rad,
      bornAt |-> now,
      ttlMs |-> r.ttl]

emitConeFlamesEight(fl, fromX, fromY, dirX, dirY, now, m, r) ==
  fl \o [i \in 1..8 |-> emitFlame(i - 1, fromX, fromY, dirX, dirY, now, m, r)]
emitConeFlames(fl, fromX, fromY, dirX, dirY, now, m, r) ==
  fl \o [i \in 1..9 |-> emitFlame(i - 1, fromX, fromY, dirX, dirY, now, m, r)]

(* ------------------------------- flames ------------------------------- *)
spliceKeep(s, i) == s
\* flames.splice(i, 1)
splice(s, i) == SubSeq(s, 1, i - 1) \o SubSeq(s, i + 1, Len(s))

hitsWallNever(fr) == FALSE
hitsWall(fr) == \E i \in 1..Len(walls) : intersectsAABB(fr, walls[i])

absorbHitNoFloor(p, now) ==
  LET d == p.shield.durability - p.shield.hitCost
  IN [p EXCEPT !.shield.durability = d,
               !.shield.brokenUntil =
                  IF d <= 1 THEN now + p.shield.breakCooldownMs ELSE @]
\* the shield takes a flame hit (updateFlames, the branch shieldIsUp(now))
absorbHit(p, now) ==
  LET d == clamp(p.shield.durability - p.shield.hitCost, 0, p.shield.max)
  IN [p EXCEPT !.shield.durability = d,
               !.shield.brokenUntil =
                  IF d <= 1 THEN now + p.shield.breakCooldownMs ELSE @]

\* what the loop of updateFlames keeps of the shield
shieldNow(p) == [active |-> p.shield.active, durability |-> p.shield.durability,
                 brokenUntil |-> p.shield.brokenUntil]

\* one iteration of the loop of updateFlames, on flame i of g.flames; g.log
\* records the flame as integrated, the shield and the terminal state before
\* and after the iteration, and what the iteration did with the flame
flameStep(g, i, dt, now) ==
  LET f0 == g.flames[i]
      f == [f0 EXCEPT !.x = @ + RoundDiv(f0.vx * dt, 1000000),
                      !.y = @ + RoundDiv(f0.vy * dt, 1000000)]
      fr == rect(f.x - f.r, f.y - f.r, f.r * 2, f.r * 2)
      pr == rect(g.player.x, g.player.y, g.player.w, g.player.h)
      hit == pointInRect(f.x, f.y, pr) \/ intersectsAABB(fr, pr)
      g1 == IF now - f.bornAt > f.ttlMs
            THEN [g EXCEPT !.flames = splice(@, i), !.did = "expired"]
            ELSE IF hitsWall(fr)
            THEN [g EXCEPT !.flames = splice(@, i), !.did = "wall"]
            ELSE IF hit
            THEN IF shieldIsUp(g.player, now)
                 THEN [g EXCEPT
                         !.player = absorbHit(@, now),
                         !.flames = splice(@, i),
                         !.did = "absorbed"]
                 ELSE [g EXCEPT !.state = "lost",
                                !.status = "burned (press R)",
                                !.flames = splice(@, i),
                                !.did = "burned"]
            ELSE [g EXCEPT !.flames[i] = f, !.did = "kept"]
  IN [g1 EXCEPT !.log = Append(@, [flame |-> f, did |-> g1.did,
                                   shield |-> shieldNow(g.player),
                                   shieldAfter |-> shieldNow(g1.player),
                                   state |-> g.state,
                                   stateAfter |-> g1.state])]

RECURSIVE flameLoop(_, _, _, _)
flameLoop(g, i, dt, now) ==
  IF i < 1 \/ i > Len(g.flames) THEN g     \* (i is always an index of flames)
  ELSE flameLoop(flameStep(g, i, dt, now), i - 1, dt, now)

updateFlames(g, dt, now) == flameLoop(g, Len(g.flames), dt, now)

(* --------------------------- monster update --------------------------- *)
\* src/game.js: chase beyond 110 px, back up below 75 px
updateMonster(g, dt, now, r) ==
  LET p == g.player
      m == g.monster
      pcx == p.x + p.w \div 2
      pcy == p.y + p.h \div 2
      mcx == m.x + m.w \div 2
      mcy == m.y + m.h \div 2
      sees == hasLineOfSight(mcx, mcy, pcx, pcy)
      toP == norm(pcx - mcx, pcy - mcy)
      dist == len(pcx - mcx, pcy - mcy)
      back == (m.speedChase * 55) \div 100
      \* sees
      s1 == IF dist > 12000
            THEN moveEntity(m, toP.x * m.speedChase, toP.y * m.speedChase, dt)
            ELSE IF dist < 8000
                 THEN moveEntity(m, -toP.x * back, -toP.y * back, dt)
                 ELSE m
      s2 == IF now - s1.lastBreathAt >= s1.breathCooldownMs
            THEN [s1 EXCEPT !.lastBreathAt = now,
                            !.breathActiveUntil = now + s1.breathDurationMs]
            ELSE s1
      emits == now < s2.breathActiveUntil
      \* patrols
      w1 == IF now > m.wander.until THEN pickWanderTarget(m, now, r) ELSE m
      v == norm(w1.wander.x - mcx, w1.wander.y - mcy)
      w2 == moveEntity(w1, v.x * w1.speedPatrol, v.y * w1.speedPatrol, dt)
      m2 == IF sees THEN s2 ELSE w2
      fl == IF sees /\ emits
            THEN emitConeFlames(g.flames, mcx, mcy, toP.x, toP.y, now, m, r)
            ELSE g.flames
      touch == intersectsAABB(p, m2)
  IN [g EXCEPT !.monster = m2,
               !.flames = fl,
               !.sees = sees,
               !.emitted = Len(fl) - Len(g.flames),
               !.contact = touch,
               !.state = IF touch THEN "lost" ELSE @,
               !.status = IF touch THEN "mauled (press R)" ELSE @]

(* ---------------- grid navigation (the A* variant) ------------------- *)
\* The variant of the game whose dragon plans its way on a grid keeps, in
\* monster, the waypoints path (pathIdx counts from 0), nextPathAt,
\* lastTargetKey (<<>> for null) and lastSeen.
monsterNavInit == [
  x |-> W - 10, y |-> H - 8, w |-> 4, h |-> 2,
  speedChase |-> 45, speedPatrol |-> 24,
  wander |-> [x |-> W \div 2, y |-> H \div 2, until |-> 0],
  path |-> <<>>, pathIdx |-> 0, nextPathAt |-> 0, lastTargetKey |-> <<>>,
  lastSeen |-> [x |-> W \div 2, y |-> H \div 2, at |-> 0],
  breathCooldownMs |-> 900, breathDurationMs |-> 700,
  breathActiveUntil |-> 0, lastBreathAt |-> 0, coneAngle |-> 571]

NAV_CELL == 2
NAV_COLS == W \div NAV_CELL
NAV_ROWS == H \div NAV_CELL
navIdx(c, r) == r * NAV_COLS + c
inBounds(c, r) == c >= 0 /\ r >= 0 /\ c < NAV_COLS /\ r < NAV_ROWS

\* navBlocked as rebuildNavGrid fills it; the walls are inflated by 1 and
\* the probe is the square of side 1 around the centre of the cell, both
\* taken in half units
rebuildNavGrid ==
  [i \in 0..(NAV_COLS * NAV_ROWS - 1) |->
     LET inflate == 1
         r == i \div NAV_COLS
         c == i % NAV_COLS
         cx2 == 2 * c * NAV_CELL + NAV_CELL
         cy2 == 2 * r * NAV_CELL + NAV_CELL
         probe == rect(cx2 - 1, cy2 - 1, 2, 2)
     IN \E k \in 1..Len(walls) :
           intersectsAABB(probe, rect(2 * (walls[k].x - inflate),
                                      2 * (walls[k].y - inflate),
                                      2 * (walls[k].w + inflate * 2),
                                      2 * (walls[k].h + inflate * 2)))]
navBlocked == rebuildNavGrid

pointToCell(x, y) ==
  LET c == clamp(x \div NAV_CELL, 0, NAV_COLS - 1)
      r == clamp(y \div NAV_CELL, 0, NAV_ROWS - 1)
  IN [c |-> c, r |-> r, key |-> <<c, r>>]

cellCenter(c, r) ==
  [x |-> c * NAV_CELL + NAV_CELL \div 2, y |-> r * NAV_CELL + NAV_CELL \div 2]

isBlocked(c, r) == IF ~inBounds(c, r) THEN TRUE ELSE navBlocked[navIdx(c, r)]

\* aStar: 4-neighbour A* with the manhattan heuristic h
h(c, r, goal) == Abs(c - goal.c) + Abs(r - goal.r)
dirsNoUp == << [dc |-> 1, dr |-> 0], [dc |-> -1, dr |-> 0], [dc |-> 0, dr |-> 1] >>
dirs == << [dc |-> 1, dr |-> 0], [dc |-> -1, dr |-> 0],
           [dc |-> 0, dr |-> 1], [dc |-> 0, dr |-> -1] >>

\* the cells from the start to cur along cameFrom
RECURSIVE reconstruct(_, _)
reconstruct(cameFrom, cur) ==
  IF cur = -1 THEN <<>>
  ELSE Append(reconstruct(cameFrom, cameFrom[cur]),
              [c |-> cur % NAV_COLS, r |-> cur \div NAV_COLS])

\* the loop over dirs, from direction k on, for the cell cur just closed
RECURSIVE relax(_, _, _, _)
relax(s, cur, k, goal) ==
  IF k > Len(dirs) THEN s
  ELSE LET nc == (cur % NAV_COLS) + dirs[k].dc
           nr == (cur \div NAV_COLS) + dirs[k].dr
           ni == navIdx(nc, nr)
           tentative == s.gScore[cur] + 1
           s1 == IF ~inBounds(nc, nr) THEN s
                 ELSE IF isBlocked(nc, nr) THEN s
                 ELSE IF ni \in s.inClosed THEN s
                 ELSE IF tentative < s.gScore[ni]
                 THEN [s EXCEPT !.cameFrom[ni] = cur,
                                !.gScore[ni] = tentative,
                                !.fScore[ni] = tentative + h(nc, nr, goal),
                                !.openList =
                                   IF \E j \in 1..Len(@) : @[j] = ni
                                   THEN @ ELSE Append(@, ni)]
                 ELSE s
       IN relax(s1, cur, k + 1, goal)

\* the while loop of aStar; <<>> stands for null
RECURSIVE aStarLoop(_, _)
aStarLoop(s, goal) ==
  IF Len(s.openList) = 0 THEN <<>>
  ELSE LET bestI == CHOOSE i \in 1..Len(s.openList) :
                      \A j \in 1..Len(s.openList) :
                         \/ s.fScore[s.openList[i]] < s.fScore[s.openList[j]]
                         \/ /\ s.fScore[s.openList[i]] = s.fScore[s.openList[j]]
                            /\ i <= j
           currentIdx == s.openList[bestI]
           s1 == [s EXCEPT !.openList = splice(@, bestI),
                           !.inClosed = @ \cup {currentIdx}]
       IN IF currentIdx = navIdx(goal.c, goal.r)
          THEN reconstruct(s1.cameFrom, currentIdx)
          ELSE aStarLoop(relax(s1, currentIdx, 1, goal), goal)

aStar(start, goal) ==
  LET startIdx == navIdx(start.c, start.r)
      all == 0..(NAV_COLS * NAV_ROWS - 1)
  IN aStarLoop([gScore |-> [i \in all |-> IF i = startIdx THEN 0 ELSE 1000000000],
                fScore |-> [i \in all |-> IF i = startIdx
                                          THEN h(start.c, start.r, goal)
                                          ELSE 1000000000],
                cameFrom |-> [i \in all |-> -1],
                openList |-> <<startIdx>>,
                inClosed |-> {}], goal)

\* the nearest unblocked cell of buildPathTo: the squares of radius 1..4
\* around tc, each scanned row by row; <<>> if none
nudgeAt(tc, rad, k) == [c |-> tc.c + (k % (2 * rad + 1)) - rad,
                        r |-> tc.r + (k \div (2 * rad + 1)) - rad]
nudgeHits(tc, rad) ==
  {k \in 0..((2 * rad + 1) * (2 * rad + 1) - 1) :
     ~isBlocked(nudgeAt(tc, rad, k).c, nudgeAt(tc, rad, k).r)}
nudgeIn(tc, rads) ==
  IF rads = {} THEN <<>>
  ELSE LET rad == CHOOSE a \in rads : \A b \in rads : a <= b
       IN <<nudgeAt(tc, rad, CHOOSE a \in nudgeHits(tc, rad) :
                                \A b \in nudgeHits(tc, rad) : a <= b)>>
nudgeFar(tc) == nudgeIn(tc, {rad \in 4..4 : nudgeHits(tc, rad) # {}})
nudge(tc) == nudgeIn(tc, {rad \in 1..4 : nudgeHits(tc, rad) # {}})

\* buildPathTo: the target cell, found being the nudged cell if any
nudged(tc0, found) ==
  IF found # <<>>
  THEN [c |-> found[1].c, r |-> found[1].r, key |-> <<found[1].c, found[1].r>>]
  ELSE tc0

\* buildPathTo: the waypoints from the cells of aStar (skip the starting cell)
takePathWhole(m, cells, key) ==
  IF Len(cells) < 2 THEN [ok |-> FALSE, monster |-> m]
  ELSE [ok |-> TRUE,
        monster |-> [m EXCEPT !.path = [i \in 1..Len(cells) |->
                                          cellCenter(cells[i].c, cells[i].r)],
                              !.pathIdx = 0,
                              !.lastTargetKey = key]]
takePath(m, cells, key) ==
  IF Len(cells) < 2 THEN [ok |-> FALSE, monster |-> m]
  ELSE [ok |-> TRUE,
        monster |-> [m EXCEPT !.path = [i \in 1..(Len(cells) - 1) |->
                                          cellCenter(cells[i + 1].c, cells[i + 1].r)],
                              !.pathIdx = 0,
                              !.lastTargetKey = key]]

\* buildPathTo from the monster's cell mc to the target cell tc
buildPathBetweenClears(m, mc, tc) ==
  IF isBlocked(mc.c, mc.r) \/ isBlocked(tc.c, tc.r)
  THEN [ok |-> FALSE, monster |-> [m EXCEPT !.path = <<>>, !.pathIdx = 0]]
  ELSE takePath(m, aStar(mc, tc), tc.key)
buildPathBetween(m, mc, tc) ==
  IF isBlocked(mc.c, mc.r) \/ isBlocked(tc.c, tc.r)
  THEN [ok |-> FALSE, monster |-> m]
  ELSE takePath(m, aStar(mc, tc), tc.key)

targetCell(tc0) ==
  nudged(tc0, IF isBlocked(tc0.c, tc0.r) THEN nudge(tc0) ELSE <<>>)

\* buildPathTo(targetX, targetY) on the monster m: the value returned and
\* the monster afterwards
buildPathTo(m, targetX, targetY) ==
  buildPathBetween(m, pointToCell(m.x + m.w \div 2, m.y + m.h \div 2),
                   targetCell(pointToCell(targetX, targetY)))

\* followPath(dt, speed) on the monster m; a waypoint is reached within
\* 6 px (650 thousandths of a unit)
followPathSkips(m, dt, speed) ==
  IF Len(m.path) = 0 \/ m.pathIdx >= Len(m.path) THEN [ok |-> FALSE, monster |-> m]
  ELSE LET mcx == m.x + m.w \div 2
           mcy == m.y + m.h \div 2
           wp == m.path[m.pathIdx + 1]
           dx == wp.x - mcx
           dy == wp.y - mcy
           d == len(dx, dy)
           v == norm(dx, dy)
       IN IF d < 650
          THEN [ok |-> TRUE, monster |-> [m EXCEPT !.pathIdx = @ + 2]]
          ELSE [ok |-> TRUE,
                monster |-> moveEntity(m, v.x * speed, v.y * speed, dt)]
followPath(m, dt, speed) ==
  IF Len(m.path) = 0 \/ m.pathIdx >= Len(m.path) THEN [ok |-> FALSE, monster |-> m]
  ELSE LET mcx == m.x + m.w \div 2
           mcy == m.y + m.h \div 2
           wp == m.path[m.pathIdx + 1]
           dx == wp.x - mcx
           dy == wp.y - mcy
           d == len(dx, dy)
           v == norm(dx, dy)
       IN IF d < 650
          THEN [ok |-> TRUE, monster |-> [m EXCEPT !.pathIdx = @ + 1]]
          ELSE [ok |-> TRUE,
                monster |-> moveEntity(m, v.x * speed, v.y * speed, dt)]

\* updateMonster: recompute the path periodically or if the target cell
\* changed (the block under shouldRepath, with its period)
repathToSearch(m, tx, ty, key, now, period) ==
  IF now >= m.nextPathAt \/ m.lastTargetKey # key
  THEN [buildPathTo(m, tx, ty).monster EXCEPT !.nextPathAt = now + period]
  ELSE m
repathTo(m, tx, ty, key, now, period) ==
  IF now >= m.nextPathAt \/ m.lastTargetKey # key
  THEN [(IF hasLineOfSight(m.x + m.w \div 2, m.y + m.h \div 2, tx, ty)
         THEN [m EXCEPT !.path = <<[x |-> tx, y |-> ty]>>,
                        !.pathIdx = 0,
                        !.lastTargetKey = key]
         ELSE buildPathTo(m, tx, ty).monster)
        EXCEPT !.nextPathAt = now + period]
  ELSE m

repath(m, tx, ty, now, period) ==
  repathTo(m, tx, ty, pointToCell(tx, ty).key, now, period)

remembersAlways(m, now) == TRUE
\* updateMonster: the last sighting still counts
remembers(m, now) == now - m.lastSeen.at < 2500

\* updateMonster: follow the path, or fall back to the straight move (vx, vy)
followOr(ok, m, vx, vy, dt) ==
  IF ok.ok THEN ok.monster ELSE moveEntity(m, vx, vy, dt)

\* updateMonster with a target: the move of the monster t1, ahead at 105 px,
\* backing up below 70 px
pursueNoBand(t1, sees, toP, dist, dt) ==
  LET back == (t1.speedChase * 55) \div 100
      speed == IF sees THEN t1.speedChase ELSE (t1.speedChase * 9) \div 10
  IN IF sees /\ dist < 7600
     THEN moveEntity(t1, -toP.x * back, -toP.y * back, dt)
     ELSE followOr(followPath(t1, dt, speed), t1,
                   toP.x * t1.speedChase, toP.y * t1.speedChase, dt)
pursue(t1, sees, toP, dist, dt) ==
  LET desired == IF sees THEN 11500 ELSE 0
      back == (t1.speedChase * 55) \div 100
      speed == IF sees THEN t1.speedChase ELSE (t1.speedChase * 9) \div 10
      ahead == ~(sees /\ dist < 7600) /\ (~sees \/ dist > desired)
  IN IF sees /\ dist < 7600
     THEN moveEntity(t1, -toP.x * back, -toP.y * back, dt)
     ELSE IF ahead
          THEN followOr(followPath(t1, dt, speed), t1,
                        toP.x * t1.speedChase, toP.y * t1.speedChase, dt)
          ELSE t1

\* updateMonster: flame breath only when sees
breathe(m, sees, now) ==
  IF sees /\ now - m.lastBreathAt >= m.breathCooldownMs
  THEN [m EXCEPT !.lastBreathAt = now,
                 !.breathActiveUntil = now + m.breathDurationMs]
  ELSE m

\* updateMonster, the patrol branch, w1 being the monster once its wander
\* point is chosen and (mcx, mcy) its centre
patrolMove(w2, v, dt) ==
  followOr(followPath(w2, dt, w2.speedPatrol), w2,
           v.x * w2.speedPatrol, v.y * w2.speedPatrol, dt)

patrol(w1, mcx, mcy, dt, now) ==
  patrolMove(repath(w1, w1.wander.x, w1.wander.y, now, 350),
             norm(w1.wander.x - mcx, w1.wander.y - mcy), dt)

wandering(m, now, r) ==
  IF now > m.wander.until THEN pickWanderTarget(m, now, r) ELSE m

\* updateMonster, the end: the flames and the contact test, m2 being the
\* monster after its move.  g.target records the case taken, the target,
\* the monster's centre and its memory before the update.
monsterEnds(g, m2, fl, sees, t) ==
  [g EXCEPT !.monster = m2,
            !.flames = fl,
            !.sees = sees,
            !.emitted = Len(fl) - Len(g.flames),
            !.contact = intersectsAABB(g.player, m2),
            !.target = t,
            !.state = IF intersectsAABB(g.player, m2) THEN "lost" ELSE @,
            !.status = IF intersectsAABB(g.player, m2)
                       THEN "mauled (press R)" ELSE @]

breathOutBlind(g, m, m2, sees, toP, mcx, mcy, now, r, t) ==
  monsterEnds(g, m2,
              IF now < m2.breathActiveUntil
              THEN emitConeFlames(g.flames, mcx, mcy, toP.x, toP.y, now, m, r)
              ELSE g.flames,
              sees, t)
breathOut(g, m, m2, sees, toP, mcx, mcy, now, r, t) ==
  monsterEnds(g, m2,
              IF sees /\ now < m2.breathActiveUntil
              THEN emitConeFlames(g.flames, mcx, mcy, toP.x, toP.y, now, m, r)
              ELSE g.flames,
              sees, t)

\* updateMonster after the sighting: m0 the monster before, m the monster
\* with lastSeen refreshed, (mcx, mcy) and (pcx, pcy) the centres
monsterPatrols(g, m0, m, w1, sees, toP, mcx, mcy, dt, now, r) ==
  breathOut(g, m, patrol(w1, mcx, mcy, dt, now), sees, toP, mcx, mcy, now, r,
            [kind |-> "patrol", x |-> w1.wander.x, y |-> w1.wander.y,
             from |-> [x |-> mcx, y |-> mcy], memory |-> m0.lastSeen])

monsterHunts(g, m0, m, kind, tx, ty, sees, toP, dist, mcx, mcy, dt, now, r) ==
  breathOut(g, m,
            breathe(pursue(repath(m, tx, ty, now, 220), sees, toP, dist, dt),
                    sees, now),
            sees, toP, mcx, mcy, now, r,
            [kind |-> kind, x |-> tx, y |-> ty,
             from |-> [x |-> mcx, y |-> mcy], memory |-> m0.lastSeen])

monsterActs(g, m0, m, sees, toP, dist, mcx, mcy, pcx, pcy, dt, now, r) ==
  IF sees
  THEN monsterHunts(g, m0, m, "player", pcx, pcy,
                    sees, toP, dist, mcx, mcy, dt, now, r)
  ELSE IF remembers(m, now)
  THEN monsterHunts(g, m0, m, "lastSeen", m.lastSeen.x, m.lastSeen.y,
                    sees, toP, dist, mcx, mcy, dt, now, r)
  ELSE monsterPatrols(g, m0, m, wandering(m, now, r),
                      sees, toP, mcx, mcy, dt, now, r)

sighting(m0, sees, pcx, pcy, now) ==
  IF sees THEN [m0 EXCEPT !.lastSeen = [x |-> pcx, y |-> pcy, at |-> now]] ELSE m0

\* updateMonster of the A* variant
updateMonsterWith(g, pcx, pcy, mcx, mcy, sees, dt, now, r) ==
  monsterActs(g, g.monster, sighting(g.monster, sees, pcx, pcy, now), sees,
              norm(pcx - mcx, pcy - mcy), len(pcx - mcx, pcy - mcy),
              mcx, mcy, pcx, pcy, dt, now, r)

centres(g) ==
  [pcx |-> g.player.x + g.player.w \div 2, pcy |-> g.player.y + g.player.h \div 2,
   mcx |-> g.monster.x + g.monster.w \div 2, mcy |-> g.monster.y + g.monster.h \div 2]

seesPlayer(c) == hasLineOfSight(c.mcx, c.mcy, c.pcx, c.pcy)

updateMonsterAt(g, c, dt, now, r) ==
  updateMonsterWith(g, c.pcx, c.pcy, c.mcx, c.mcy, seesPlayer(c), dt, now, r)

updateMonsterNav(g, dt, now, r) == updateMonsterAt(g, centres(g), dt, now, r)

(* ------------------------------- driver ------------------------------- *)
\* ev: what the last call of tick did (ran: the updates ran).  hist: the
\* history of the round: the timestamp of its first tick, whether the
\* monster has seen the player, whether a movement key has been held.
evNone == [ran |-> FALSE, reset |-> FALSE, probe |-> "none"]
histNone == [first |-> 0, seen |-> FALSE, moved |-> FALSE]

reset ==
  /\ player' = [player EXCEPT !.x = playerInit.x,
                              !.y = playerInit.y,
                              !.stamina = player.staminaMax,
                              !.shield.active = FALSE,
                              !.shield.durability = player.shield.max,
                              !.shield.brokenUntil = 0]
  /\ monster' = [monster EXCEPT !.x = W - 10,
                                !.y = H - 8,
                                !.wander = [x |-> W \div 2, y |-> H \div 2, until |-> 0],
                                !.breathActiveUntil = 0,
                                !.lastBreathAt = 0]
  /\ flames' = <<>>
  /\ startTs' = 0
  /\ lastTs' = 0
  /\ elapsed' = 0
  /\ state' = "running"
  /\ status' = "running"

\* the world after the three updates of a running tick, with what each did
runUpdates(g, dt, ts, k, r) ==
  LET g1 == updatePlayer(g, dt, ts, k)
      g2 == updateMonster(g1, dt, ts, r)
      g3 == updateFlames(g2, dt, ts)
  IN [g3 EXCEPT !.log = [afterPlayer |-> g1.player,
                         afterMonster |-> g2.state,
                         flamesBefore |-> g2.flames,
                         flames |-> g3.log]]

goalReachedNever(el) == FALSE
goalReachedAnyTick(el) == el >= 0
\* the goal test of tick, on the elapsed time in ms
goalReached(el) == el >= GOAL_SECONDS * 1000

\* the frame time of tick(ts), in ms
frameTime(ts) == Min(DT_CAP, ts - (IF lastTs = 0 THEN ts ELSE lastTs))

frameAlways(ts, k, g) ==
  LET startTs1 == IF startTs = 0 THEN ts ELSE startTs
      el == ts - startTs1
      won == goalReached(el)
  IN /\ startTs' = startTs1
     /\ lastTs' = ts
     /\ elapsed' = el
     /\ player' = g.player
     /\ monster' = g.monster
     /\ flames' = g.flames
     /\ state' = IF won THEN "won" ELSE g.state
     /\ status' = IF won THEN "won (press R)" ELSE g.status
     /\ hist' = hist
     /\ ev' = evNone
\* tick(ts) with the keys k held, g being the world after the three updates
\* (taken only if the round is running); elapsed is in ms
frame(ts, k, g) ==
  LET startTs1 == IF startTs = 0 THEN ts ELSE startTs
      el == ts - startTs1
      won == goalReached(el)
  IN /\ startTs' = startTs1
     /\ lastTs' = ts
     /\ IF state = "running"
        THEN \E g3 \in {g} :
             /\ elapsed' = el
             /\ player' = g3.player
             /\ monster' = g3.monster
             /\ flames' = g3.flames
             /\ state' = IF won THEN "won" ELSE g3.state
             /\ status' = IF won THEN "won (press R)" ELSE g3.status
             /\ hist' = [first |-> IF hist.first = 0 THEN ts ELSE hist.first,
                         seen |-> hist.seen \/ g3.sees,
                         moved |-> hist.moved \/ k.dx # 0 \/ k.dy # 0]
             /\ ev' = [ran |-> TRUE, reset |-> FALSE, probe |-> "none",
                       now |-> ts,
                       dt |-> frameTime(ts),
                       keys |-> k, before |-> shieldNow(player),
                       monsterBefore |-> monster,
                       sees |-> g3.sees, contact |-> g3.contact,
                       emitted |-> g3.emitted, target |-> g3.target,
                       afterPlayer |-> g3.log.afterPlayer,
                       afterMonster |-> g3.log.afterMonster,
                       flamesBefore |-> g3.log.flamesBefore,
                       afterFlames |-> g3.state,
                       statusAfterFlames |-> g3.status,
                       log |-> g3.log.flames]
        ELSE /\ UNCHANGED <<elapsed, player, monster, flames, state, status, hist>>
             /\ ev' = evNone

\* tick(ts) of src/game.js, with the random draws r
tick(ts, k, r) == frame(ts, k, runUpdates(World, frameTime(ts), ts, k, r))

\* the A* variant: its three updates, its tick, its reset
runUpdatesNav(g, dt, ts, k, r) ==
  LET g1 == updatePlayer(g, dt, ts, k)
      g2 == updateMonsterNav(g1, dt, ts, r)
      g3 == updateFlames(g2, dt, ts)
  IN [g3 EXCEPT !.log = [afterPlayer |-> g1.player,
                         afterMonster |-> g2.state,
                         flamesBefore |-> g2.flames,
                         flames |-> g3.log]]

tickNav(ts, k, r) == frame(ts, k, runUpdatesNav(World, frameTime(ts), ts, k, r))

resetNavKeepsPath ==
  /\ player' = [player EXCEPT !.x = playerInit.x,
                              !.y = playerInit.y,
                              !.stamina = player.staminaMax,
                              !.shield.active = FALSE,
                              !.shield.durability = player.shield.max,
                              !.shield.brokenUntil = 0]
  /\ monster' = [monster EXCEPT !.x = W - 10,
                                !.y = H - 8,
                                !.wander = [x |-> W \div 2, y |-> H \div 2, until |-> 0],
                                !.breathActiveUntil = 0,
                                !.lastBreathAt = 0]
  /\ flames' = <<>>
  /\ startTs' = 0
  /\ lastTs' = 0
  /\ elapsed' = 0
  /\ state' = "running"
  /\ status' = "running"
resetNav ==
  /\ player' = [player EXCEPT !.x = playerInit.x,
                              !.y = playerInit.y,
                              !.stamina = player.staminaMax,
                              !.shield.active = FALSE,
                              !.shield.durability = player.shield.max,
                              !.shield.brokenUntil = 0]
  /\ monster' = [monster EXCEPT !.x = W - 10,
                                !.y = H - 8,
                                !.wander = [x |-> W \div 2, y |-> H \div 2, until |-> 0],
                                !.breathActiveUntil = 0,
                                !.lastBreathAt = 0,
                                !.path = <<>>,
                                !.pathIdx = 0,
                                !.nextPathAt = 0,
                                !.lastTargetKey = <<>>,
                                !.lastSeen = [x |-> W \div 2, y |-> H \div 2, at |-> 0]]
  /\ flames' = <<>>
  /\ startTs' = 0
  /\ lastTs' = 0
  /\ elapsed' = 0
  /\ state' = "running"
  /\ status' = "running"

(* ------------------------------- inputs ------------------------------- *)
\* keys held during a tick
Idle == [dx |-> 0, dy |-> 0, sprint |-> FALSE, shield |-> FALSE]
Hold == [dx |-> 0, dy |-> 0, sprint |-> FALSE, shield |-> TRUE]
RunDown == [dx |-> 0, dy |-> 1, sprint |-> TRUE, shield |-> TRUE]
RunRight == [dx |-> 1, dy |-> 0, sprint |-> TRUE, shield |-> FALSE]
RunDiag == [dx |-> 1, dy |-> 1, sprint |-> TRUE, shield |-> FALSE]
WalkRight == [dx |-> 1, dy |-> 0, sprint |-> FALSE, shield |-> FALSE]
Shift == [dx |-> 0, dy |-> 0, sprint |-> TRUE, shield |-> FALSE]

\* the values Math.random() yields during a tick
R1 == [samples |-> <<[x |-> 8, y |-> 14]>>, dwell |-> 0,
       jitter |-> 0, mx |-> 750, my |-> 750, rad |-> 1, ttl |-> 520]
R2 == [samples |-> <<[x |-> 13, y |-> 9], [x |-> 18, y |-> 16]>>, dwell |-> 1300,
       jitter |-> 50, mx |-> 1100, my |-> 1100, rad |-> 1, ttl |-> 780]
R3 == [samples |-> <<[x |-> 18, y |-> 12]>>, dwell |-> 0,
       jitter |-> 0, mx |-> 750, my |-> 750, rad |-> 1, ttl |-> 520]
R4 == [samples |-> <<[x |-> 5, y |-> 4]>>, dwell |-> 0,
       jitter |-> 0, mx |-> 750, my |-> 750, rad |-> 1, ttl |-> 520]
R5 == [samples |-> <<[x |-> 16, y |-> 14]>>, dwell |-> 0,
       jitter |-> 0, mx |-> 750, my |-> 750, rad |-> 1, ttl |-> 520]
R6 == [samples |-> <<[x |-> 13, y |-> 3]>>, dwell |-> 0,
       jitter |-> 0, mx |-> 750, my |-> 750, rad |-> 1, ttl |-> 520]

\* a tick's input: the time since the previous frame, the keys, the draws
In(gap, k, r) == [gap |-> gap, k |-> k, r |-> r]

(* --------------------------- specification ---------------------------- *)
Init ==
  /\ player = playerInit
  /\ monster = monsterInit
  /\ flames = <<>>
  /\ startTs = 0
  /\ lastTs = 0
  /\ elapsed = 0
  /\ state = "running"
  /\ status = "running"
  /\ clock = 0
  /\ nTicks = 0
  /\ nResets = 0
  /\ ev = evNone
  /\ hist = histNone

\* requestAnimationFrame(tick): one frame, with an input of Ins
TickOf(Ins, maxTicks) ==
  /\ nTicks < maxTicks
  /\ \E in \in Ins :
       /\ clock' = clock + in.gap
       /\ tick(clock + in.gap, in.k, in.r)
  /\ nTicks' = nTicks + 1
  /\ UNCHANGED nResets

\* keydown 'r'
Reset ==
  /\ nResets < MaxResets
  /\ reset
  /\ nResets' = nResets + 1
  /\ ev' = [ran |-> FALSE, reset |-> TRUE, probe |-> "none"]
  /\ hist' = histNone
  /\ UNCHANGED <<clock, nTicks>>

\* short frames around the shield: the player steps into view of the monster
Inputs == {In(1000, Idle, R1), In(33, RunDown, R1), In(33, Hold, R1), In(33, Idle, R1)}
Tick == TickOf(Inputs, MaxTicks)
Next == Tick \/ Reset
Spec == Init /\ [][Next]_vars

\* long frames (a tab in the background): a whole round within a few frames
LateInputs == {In(5000, Idle, R1), In(5000, RunRight, R1), In(5000, RunDiag, R1), In(5000, Idle, R3)}
TickLate == TickOf(LateInputs, MaxLateTicks)
NextLate == TickLate \/ Reset
SpecLate == Init /\ [][NextLate]_vars

\* frames around the breath: the player steps into view behind the shield
\* and stays there while the frames come some tenths of a second apart
BreathInputs == {In(33, RunDown, R1), In(400, Hold, R1), In(800, Hold, R1)}
TickBreath == TickOf(BreathInputs, MaxBreathTicks)
NextBreath == TickBreath \/ Reset
SpecBreath == Init /\ [][NextBreath]_vars

\* short frames in which the player runs to meet the patrolling monster
MeetInputs == {In(33, RunRight, R1), In(33, RunDiag, R1), In(33, Idle, R1)}
TickMeet == TickOf(MeetInputs, MaxMeetTicks)
NextMeet == TickMeet \/ Reset
SpecMeet == Init /\ [][NextMeet]_vars

\* frames in which the player holds the shield up in the monster's breath
\* until it breaks, and frames a second apart that let the cooldown pass;
\* the browser goes on calling tick as long as the page is shown
ShieldInputs == {In(33, RunDown, R1), In(33, Hold, R1), In(1000, Hold, R1)}
TickShield == TickOf(ShieldInputs, MaxShieldTicks)
NextShield == TickShield
\* a frame is due: requestAnimationFrame(tick) at the end of tick asks for
\* the next one (every step that counts a frame is a step of TickShield)
FrameDue == nTicks < MaxShieldTicks /\ nTicks' = nTicks + 1
SpecShield == Init /\ [][NextShield]_vars /\ WF_nTicks(FrameDue)

\* the A* variant: the player steps into view and back behind the wall
RunUp == [dx |-> 0, dy |-> -1, sprint |-> TRUE, shield |-> TRUE]
NavInputs == {In(33, RunDown, R1), In(33, RunUp, R1), In(3000, Idle, R4), In(33, Idle, R3)}
InitNav ==
  /\ player = playerInit
  /\ monster = monsterNavInit
  /\ flames = <<>>
  /\ startTs = 0
  /\ lastTs = 0
  /\ elapsed = 0
  /\ state = "running"
  /\ status = "running"
  /\ clock = 0
  /\ nTicks = 0
  /\ nResets = 0
  /\ ev = evNone
  /\ hist = histNone
TickNav ==
  /\ nTicks < MaxNavTicks
  /\ \E in \in NavInputs :
       /\ clock' = clock + in.gap
       /\ tickNav(clock + in.gap, in.k, in.r)
  /\ nTicks' = nTicks + 1
  /\ UNCHANGED nResets
ResetNav ==
  /\ nResets < MaxResets
  /\ resetNav
  /\ nResets' = nResets + 1
  /\ ev' = [ran |-> FALSE, reset |-> TRUE, probe |-> "none",
            was |-> [state |-> state, path |-> monster.path # <<>>,
                     flames |-> flames # <<>>]]
  /\ hist' = histNone
  /\ UNCHANGED <<clock, nTicks>>
NextNav == TickNav \/ ResetNav
SpecNav == InitNav /\ [][NextNav]_vars

\* moveEntity alone, on the player and on the monster, with velocities up to
\* far more than a frame can cross and any frame time
Velocities == {<<300000, 0>>, <<-300000, 0>>, <<0, 300000>>, <<0, -300000>>,
               <<40000, 40000>>, <<-40000, 66000>>, <<66000, -40000>>,
               <<-42000, -24000>>, <<250000, -250000>>}
FrameTimes == {16, 33, 1000}
MovePlayer ==
  /\ nTicks < MaxMoves
  /\ \E v \in Velocities, dt \in FrameTimes :
        player' = moveEntity(player, v[1], v[2], dt)
  /\ nTicks' = nTicks + 1
  /\ UNCHANGED <<monster, flames, startTs, lastTs, elapsed, state, status,
                 clock, nResets, ev, hist>>
MoveMonster ==
  /\ nTicks < MaxMoves
  /\ \E v \in Velocities, dt \in FrameTimes :
        monster' = moveEntity(monster, v[1], v[2], dt)
  /\ nTicks' = nTicks + 1
  /\ UNCHANGED <<player, flames, startTs, lastTs, elapsed, state, status,
                 clock, nResets, ev, hist>>
NextMove == MovePlayer \/ MoveMonster
SpecMove == Init /\ [][NextMove]_vars

\* the A* variant with the player out of sight and frames after long pauses:
\* the monster patrols, to a point below it (R5), to points behind the wall
\* (R4, and R6 in a blocked cell of the grid)
PatrolInputs == {In(3000, Idle, R5), In(33, Idle, R5), In(3000, Idle, R4),
                 In(3000, Idle, R6), In(33, Idle, R6)}
TickPatrol ==
  /\ nTicks < MaxPatrolTicks
  /\ \E in \in PatrolInputs :
       /\ clock' = clock + in.gap
       /\ tickNav(clock + in.gap, in.k, in.r)
  /\ nTicks' = nTicks + 1
  /\ UNCHANGED nResets
NextPatrol == TickPatrol \/ ResetNav
SpecPatrol == InitNav /\ [][NextPatrol]_vars

\* the pathfinder on its own: aStar from every unblocked cell to every cell
\* of the grid, and buildPathTo for the monster standing anywhere on the
\* even positions of the arena and every cell centre as the target
Cells == {[c |-> c, r |-> r] : c \in 0..(NAV_COLS - 1), r \in 0..(NAV_ROWS - 1)}
FreeCells == {p \in Cells : ~isBlocked(p.c, p.r)}
MonsterSpots ==
  {[monsterNavInit EXCEPT !.x = 2 * i, !.y = 2 * j] :
     i \in 0..((W - monsterNavInit.w) \div 2),
     j \in 0..((H - monsterNavInit.h) \div 2)}
PathAsks ==
  {[ran |-> FALSE, reset |-> FALSE, probe |-> "ask", fn |-> "aStar",
    start |-> s, goal |-> g] : s \in FreeCells, g \in Cells}
  \cup
  {[ran |-> FALSE, reset |-> FALSE, probe |-> "ask", fn |-> "buildPathTo",
    m |-> m, targetX |-> cellCenter(g.c, g.r).x,
    targetY |-> cellCenter(g.c, g.r).y] : m \in MonsterSpots, g \in Cells}
InitPath ==
  /\ player = playerInit
  /\ monster = monsterNavInit
  /\ flames = <<>>
  /\ startTs = 0
  /\ lastTs = 0
  /\ elapsed = 0
  /\ state = "running"
  /\ status = "running"
  /\ clock = 0
  /\ nTicks = 0
  /\ nResets = 0
  /\ ev \in PathAsks
  /\ hist = histNone
RunAStar ==
  /\ ev.probe = "ask" /\ ev.fn = "aStar"
  /\ ev' = [ran |-> FALSE, reset |-> FALSE, probe |-> "aStar",
            start |-> ev.start, goal |-> ev.goal,
            cells |-> aStar(ev.start, ev.goal)]
  /\ UNCHANGED <<player, monster, flames, startTs, lastTs, elapsed, state,
                 status, clock, nTicks, nResets, hist>>
RunBuildPathTo ==
  /\ ev.probe = "ask" /\ ev.fn = "buildPathTo"
  /\ ev' = [ran |-> FALSE, reset |-> FALSE, probe |-> "buildPathTo",
            m |-> ev.m, targetX |-> ev.targetX, targetY |-> ev.targetY,
            out |-> buildPathTo(ev.m, ev.targetX, ev.targetY)]
  /\ UNCHANGED <<player, monster, flames, startTs, lastTs, elapsed, state,
                 status, clock, nTicks, nResets, hist>>
NextPath == RunAStar \/ RunBuildPathTo
SpecPath == InitPath /\ [][NextPath]_vars

\* the geometry on its own: segmentIntersectsRect for every segment between
\* points of a small square and rectangles inside it, hasLineOfSight between
\* the points of a lattice over the arena, resolveStaticCollision for small
\* movers around the same rectangles
GeomRects == {rect(2, 2, 2, 2), rect(1, 3, 3, 1)}
GeomCoords == 0..MaxCoord
LosPoints == {[x |-> 3 * i, y |-> 3 * j] : i \in 0..(W \div 3), j \in 0..(H \div 3)}
GeomAsks ==
  {[ran |-> FALSE, reset |-> FALSE, probe |-> "ask", fn |-> "segmentIntersectsRect",
    x1 |-> x1, y1 |-> y1, x2 |-> x2, y2 |-> y2, r |-> r] :
     x1 \in GeomCoords, y1 \in GeomCoords, x2 \in GeomCoords, y2 \in GeomCoords,
     r \in GeomRects}
  \cup
  {[ran |-> FALSE, reset |-> FALSE, probe |-> "ask", fn |-> "hasLineOfSight",
    a |-> a, b |-> b] : a \in LosPoints, b \in LosPoints}
  \cup
  {[ran |-> FALSE, reset |-> FALSE, probe |-> "ask", fn |-> "resolveStaticCollision",
    mover |-> rect(x, y, mw, mh), stat |-> r] :
     x \in GeomCoords, y \in GeomCoords, mw \in 1..2, mh \in 1..2, r \in GeomRects}
InitGeom ==
  /\ player = playerInit
  /\ monster = monsterInit
  /\ flames = <<>>
  /\ startTs = 0
  /\ lastTs = 0
  /\ elapsed = 0
  /\ state = "running"
  /\ status = "running"
  /\ clock = 0
  /\ nTicks = 0
  /\ nResets = 0
  /\ ev \in GeomAsks
  /\ hist = histNone
RunSegment ==
  /\ ev.probe = "ask" /\ ev.fn = "segmentIntersectsRect"
  /\ ev' = [ran |-> FALSE, reset |-> FALSE, probe |-> "segmentIntersectsRect",
            x1 |-> ev.x1, y1 |-> ev.y1, x2 |-> ev.x2, y2 |-> ev.y2, r |-> ev.r,
            out |-> segmentIntersectsRect(ev.x1, ev.y1, ev.x2, ev.y2, ev.r)]
  /\ UNCHANGED <<player, monster, flames, startTs, lastTs, elapsed, state,
                 status, clock, nTicks, nResets, hist>>
RunLineOfSight ==
  /\ ev.probe = "ask" /\ ev.fn = "hasLineOfSight"
  /\ ev' = [ran |-> FALSE, reset |-> FALSE, probe |-> "hasLineOfSight",
            a |-> ev.a, b |-> ev.b,
            ab |-> hasLineOfSight(ev.a.x, ev.a.y, ev.b.x, ev.b.y),
            ba |-> hasLineOfSight(ev.b.x, ev.b.y, ev.a.x, ev.a.y)]
  /\ UNCHANGED <<player, monster, flames, startTs, lastTs, elapsed, state,
                 status, clock, nTicks, nResets, hist>>
RunResolve ==
  /\ ev.probe = "ask" /\ ev.fn = "resolveStaticCollision"
  /\ ev' = [ran |-> FALSE, reset |-> FALSE, probe |-> "resolveStaticCollision",
            mover |-> ev.mover, stat |-> ev.stat,
            out |-> resolveStaticCollision(ev.mover, ev.stat)]
  /\ UNCHANGED <<player, monster, flames, startTs, lastTs, elapsed, state,
                 status, clock, nTicks, nResets, hist>>
NextGeom == RunSegment \/ RunLineOfSight \/ RunResolve
SpecGeom == InitGeom /\ [][NextGeom]_vars

\* the navigation grid at the scale of the source (pixels): the walls of a
\* canvas cw by ch, the grid of cells of 22 px, the walls inflated by 10 px,
\* the probe of 4 px around the centre of a cell. The size of the canvas comes
\* from the page; the inner walls do not depend on it.
NAV_CELL_PX == 22
INFLATE_PX == 10
wallsPx(cw, ch) == <<
  rect(0, 0, cw, 16),
  rect(0, ch - 16, cw, 16),
  rect(0, 0, 16, ch),
  rect(cw - 16, 0, 16, ch),
  rect(140, 80, 520, 18),
  rect(140, 80, 18, 250),
  rect(320, 160, 18, 260),
  rect(480, 250, 320, 18),
  rect(650, 120, 18, 210),
  rect(210, 360, 260, 18),
  rect(760, 360, 18, 120),
  rect(90, 420, 180, 18)
>>
inflatedPx(wl) == rect(wl.x - INFLATE_PX, wl.y - INFLATE_PX,
                       wl.w + INFLATE_PX * 2, wl.h + INFLATE_PX * 2)
navColsPx(cw) == cw \div NAV_CELL_PX
navRowsPx(ch) == ch \div NAV_CELL_PX
inBoundsPx(cw, ch, c, r) == c >= 0 /\ r >= 0 /\ c < navColsPx(cw) /\ r < navRowsPx(ch)
\* navBlocked[navIdx(c, r)] as rebuildNavGrid fills it (NAV_CELL / 2 is 11)
rebuildNavGridPx(cw, ch, c, r) ==
  \E k \in 1..Len(wallsPx(cw, ch)) :
     intersectsAABB(rect(c * NAV_CELL_PX + NAV_CELL_PX \div 2 - 2,
                         r * NAV_CELL_PX + NAV_CELL_PX \div 2 - 2, 4, 4),
                    inflatedPx(wallsPx(cw, ch)[k]))
isBlockedPx(cw, ch, c, r) ==
  IF ~inBoundsPx(cw, ch, c, r) THEN TRUE ELSE rebuildNavGridPx(cw, ch, c, r)

Canvases == {[w |-> 900, h |-> 560], [w |-> 960, h |-> 540]}
GridAsks ==
  UNION {{[ran |-> FALSE, reset |-> FALSE, probe |-> "ask", fn |-> "isBlocked",
           canvas |-> cv, c |-> c, r |-> r] :
            c \in -1..navColsPx(cv.w), r \in -1..navRowsPx(cv.h)} : cv \in Canvases}
InitGrid ==
  /\ player = playerInit
  /\ monster = monsterNavInit
  /\ flames = <<>>
  /\ startTs = 0
  /\ lastTs = 0
  /\ elapsed = 0
  /\ state = "running"
  /\ status = "running"
  /\ clock = 0
  /\ nTicks = 0
  /\ nResets = 0
  /\ ev \in GridAsks
  /\ hist = histNone
RunIsBlocked ==
  /\ ev.probe = "ask" /\ ev.fn = "isBlocked"
  /\ ev' = [ran |-> FALSE, reset |-> FALSE, probe |-> "isBlocked",
            canvas |-> ev.canvas, c |-> ev.c, r |-> ev.r,
            out |-> isBlockedPx(ev.canvas.w, ev.canvas.h, ev.c, ev.r)]
  /\ UNCHANGED <<player, monster, flames, startTs, lastTs, elapsed, state,
                 status, clock, nTicks, nResets, hist>>
NextGrid == RunIsBlocked
SpecGrid == InitGrid /\ [][NextGrid]_vars

\* updatePlayer on its own, from any level of stamina: the frame time of a
\* tick is any value up to the cap, so drain and regeneration reach every
\* level between 0 and staminaMax
StaminaLevels == {i * StaminaStep : i \in 0..(playerInit.staminaMax \div StaminaStep)}
                 \cup {1000, 1001, playerInit.staminaMax}
InitPlayer ==
  /\ player \in {[playerInit EXCEPT !.stamina = st] : st \in StaminaLevels}
  /\ monster = monsterInit
  /\ flames = <<>>
  /\ startTs = 0
  /\ lastTs = 0
  /\ elapsed = 0
  /\ state = "running"
  /\ status = "running"
  /\ clock = 0
  /\ nTicks = 0
  /\ nResets = 0
  /\ ev = evNone
  /\ hist = histNone
UpdatePlayer ==
  /\ nTicks < MaxPlayerSteps
  /\ \E k \in {Idle, Hold, RunRight, RunDown, WalkRight, Shift}, dt \in {0, 16, DT_CAP} :
        /\ player' = updatePlayer(World, dt, clock + dt, k).player
        /\ clock' = clock + dt
        /\ ev' = [ran |-> FALSE, reset |-> FALSE, probe |-> "updatePlayer",
                  keys |-> k, dt |-> dt, stamina |-> player.stamina,
                  from |-> player]
  /\ nTicks' = nTicks + 1
  /\ UNCHANGED <<monster, flames, startTs, lastTs, elapsed, state, status,
                 nResets, hist>>
NextPlayer == UpdatePlayer
SpecPlayer == InitPlayer /\ [][NextPlayer]_vars

\* pickWanderTarget on its own, and updateMonster around it: Math.random()
\* yields points of the inner arena that lie on a wall or off every wall,
\* in any order; the dragon sees the player or not, and the wander target
\* has expired, expires now or is still good
WanderPoints == {[x |-> 8, y |-> 14], [x |-> 18, y |-> 12], [x |-> 5, y |-> 4],
                 [x |-> 10, y |-> 6], [x |-> 16, y |-> 6], [x |-> 10, y |-> 8]}
WanderRands ==
  UNION {{[R1 EXCEPT !.samples = sq, !.dwell = dw] :
            sq \in [1..n -> WanderPoints], dw \in {0, 1299}} : n \in 1..MaxSamples}
WanderAsks ==
  {[ran |-> FALSE, reset |-> FALSE, probe |-> "ask", fn |-> "pickWanderTarget",
    now |-> now, r |-> r, until |-> 0, at |-> [x |-> playerInit.x, y |-> playerInit.y],
    dt |-> 0] : now \in {0, 1500}, r \in WanderRands}
  \cup
  {[ran |-> FALSE, reset |-> FALSE, probe |-> "ask", fn |-> "updateMonster",
    now |-> 1500, r |-> r, until |-> u, at |-> q, dt |-> dt] :
      r \in {rr \in WanderRands : Len(rr.samples) = 1},
      u \in {0, 1499, 1500, 1501, 2600},
      q \in {[x |-> 4, y |-> 4], [x |-> 12, y |-> 2], [x |-> 4, y |-> 12]},
      dt \in {0, DT_CAP}}
InitWander ==
  /\ ev \in WanderAsks
  /\ player = [playerInit EXCEPT !.x = ev.at.x, !.y = ev.at.y]
  /\ monster = [monsterInit EXCEPT !.wander.until = ev.until]
  /\ flames = <<>>
  /\ startTs = 0
  /\ lastTs = 0
  /\ elapsed = 0
  /\ state = "running"
  /\ status = "running"
  /\ clock = 0
  /\ nTicks = 0
  /\ nResets = 0
  /\ hist = histNone
RunPickWanderTarget ==
  /\ ev.probe = "ask" /\ ev.fn = "pickWanderTarget"
  /\ monster' = pickWanderTarget(monster, ev.now, ev.r)
  /\ ev' = [ran |-> FALSE, reset |-> FALSE, probe |-> "pickWanderTarget",
            now |-> ev.now, r |-> ev.r, monsterBefore |-> monster, sees |-> FALSE]
  /\ UNCHANGED <<player, flames, startTs, lastTs, elapsed, state, status, clock,
                 nTicks, nResets, hist>>
RunUpdateMonster ==
  /\ ev.probe = "ask" /\ ev.fn = "updateMonster"
  /\ \E g \in {updateMonster(World, ev.dt, ev.now, ev.r)} :
        /\ monster' = g.monster
        /\ flames' = g.flames
        /\ state' = g.state
        /\ status' = g.status
        /\ ev' = [ran |-> FALSE, reset |-> FALSE, probe |-> "updateMonster",
                  now |-> ev.now, r |-> ev.r, monsterBefore |-> monster,
                  sees |-> g.sees]
  /\ UNCHANGED <<player, startTs, lastTs, elapsed, clock, nTicks, nResets, hist>>
NextWander == RunPickWanderTarget \/ RunUpdateMonster
SpecWander == InitWander /\ [][NextWander]_vars

\* one tick of the A* variant in the middle of a hunt: five seconds into the
\* round the monster has walked to the place where it last saw the player
\* (its path is the single waypoint there, reached or already used up), the
\* sighting is recent or long ago, the next replan is due or not, and the
\* player is somewhere in the open or behind the inner walls
HuntSpots == {[x |-> 13, y |-> 11], [x |-> 16, y |-> 12], [x |-> 14, y |-> 9],
              [x |-> 6, y |-> 11], [x |-> 12, y |-> 13]}
HuntPlayers == {[playerInit EXCEPT !.x = q.x, !.y = q.y] :
                  q \in {[x |-> 4, y |-> 4], [x |-> 4, y |-> 2], [x |-> 6, y |-> 3],
                         [x |-> 19, y |-> 11], [x |-> 4, y |-> 11]}}
HuntMonsters ==
  {[monsterNavInit EXCEPT !.x = s.x - monsterNavInit.w \div 2,
                          !.y = s.y - monsterNavInit.h \div 2,
                          !.path = <<s>>,
                          !.pathIdx = i,
                          !.lastTargetKey = pointToCell(s.x, s.y).key,
                          !.nextPathAt = 5000 + due,
                          !.wander = [x |-> s.x, y |-> s.y, until |-> 5000 + 1100],
                          !.lastSeen = [x |-> s.x, y |-> s.y, at |-> 5000 - ago]] :
     s \in HuntSpots, i \in 0..1, due \in {0, 150}, ago \in {66, 3000}}
InitHunt ==
  /\ player \in HuntPlayers
  /\ monster \in HuntMonsters
  /\ flames = <<>>
  /\ startTs = 1000
  /\ lastTs = 5000
  /\ elapsed = 4000
  /\ state = "running"
  /\ status = "running"
  /\ clock = 5000
  /\ nTicks = 0
  /\ nResets = 0
  /\ ev = evNone
  /\ hist = [first |-> 1000, seen |-> TRUE, moved |-> TRUE]
TickHunt ==
  /\ nTicks < MaxHuntTicks
  /\ \E in \in {In(33, Idle, R1), In(16, Idle, R1)} :
       /\ clock' = clock + in.gap
       /\ tickNav(clock + in.gap, in.k, in.r)
  /\ nTicks' = nTicks + 1
  /\ UNCHANGED nResets
NextHunt == TickHunt
SpecHunt == InitHunt /\ [][NextHunt]_vars

\* moveEntity on its own at the scale of the page (pixels), on the canvas of
\* 900 x 560: the entity stands clear of every wall at a place next to where
\* two walls meet, cross or leave a gap, and moves by a displacement vx * dt,
\* vy * dt that its speed allows within one frame of at most 33 ms
playerPx == [w |-> 18, h |-> 26, speed |-> 210, mult |-> 165]
monsterPx == [w |-> 34, h |-> 24, speed |-> 220, mult |-> 100]
stepBound(ent) == (ent.speed * ent.mult * DT_CAP) \div 100000
RECURSIVE resolveWallsPx(_, _, _)
resolveWallsPx(ent, wl, i) ==
  IF i > Len(wl) THEN ent
  ELSE resolveWallsPx(resolveStaticCollision(ent, wl[i]), wl, i + 1)
moveEntityPx(cw, ch, ent, dx, dy) ==
  LET e2 == resolveWallsPx([ent EXCEPT !.x = @ + dx, !.y = @ + dy], wallsPx(cw, ch), 1)
  IN [e2 EXCEPT !.x = clamp(e2.x, 0, cw - e2.w),
                !.y = clamp(e2.y, 0, ch - e2.h)]
clearOfWallsPx(cw, ch, ent) ==
  \A i \in 1..Len(wallsPx(cw, ch)) : ~intersectsAABB(ent, wallsPx(cw, ch)[i])
Junctions == {<<140, 80>>, <<158, 98>>, <<650, 98>>, <<650, 120>>, <<668, 120>>,
              <<650, 250>>, <<668, 250>>, <<650, 268>>, <<668, 268>>, <<16, 16>>}
Offsets == {-6, -3, 0, 3, 6}
StepSpots(ent) ==
  {[x |-> j[1] + ox - a * ent.w, y |-> j[2] + oy - b * ent.h, w |-> ent.w, h |-> ent.h] :
     j \in Junctions, ox \in Offsets, oy \in Offsets, a \in 0..1, b \in 0..1}
StepsOf(ent) ==
  LET b == stepBound(ent)
      d == (b * 707) \div 1000
  IN {<<b, 0>>, <<-b, 0>>, <<0, b>>, <<0, -b>>,
      <<d, d>>, <<d, -d>>, <<-d, d>>, <<-d, -d>>, <<3, 0>>, <<0, -3>>}
StepAsks ==
  UNION {{[ran |-> FALSE, reset |-> FALSE, probe |-> "ask", fn |-> "moveEntity",
           canvas |-> [w |-> 900, h |-> 560], ent |-> e, d |-> d] :
            e \in {q \in StepSpots(kind) : clearOfWallsPx(900, 560, q)},
            d \in StepsOf(kind)} : kind \in {playerPx, monsterPx}}
InitStep ==
  /\ player = playerInit
  /\ monster = monsterInit
  /\ flames = <<>>
  /\ startTs = 0
  /\ lastTs = 0
  /\ elapsed = 0
  /\ state = "running"
  /\ status = "running"
  /\ clock = 0
  /\ nTicks = 0
  /\ nResets = 0
  /\ ev \in StepAsks
  /\ hist = histNone
RunMoveEntity ==
  /\ ev.probe = "ask" /\ ev.fn = "moveEntity"
  /\ ev' = [ran |-> FALSE, reset |-> FALSE, probe |-> "moveEntity",
            canvas |-> ev.canvas, ent |-> ev.ent, d |-> ev.d,
            out |-> moveEntityPx(ev.canvas.w, ev.canvas.h, ev.ent, ev.d[1], ev.d[2])]
  /\ UNCHANGED <<player, monster, flames, startTs, lastTs, elapsed, state,
                 status, clock, nTicks, nResets, hist>>
NextStep == RunMoveEntity
SpecStep == InitStep /\ [][NextStep]_vars

\* the steps of buildPathTo on their own, for a monster that already has a
\* path: the search for a substitute of the target cell, the rest of
\* buildPathTo for a target cell as that search leaves it (blocked cells
\* included: the cell stays as it is when no substitute is found), and the
\* whole of buildPathTo
TravelledSpots ==
  {[m EXCEPT !.path = <<[x |-> 5, y |-> 11], [x |-> 5, y |-> 13]>>,
             !.pathIdx = 1,
             !.lastTargetKey = <<2, 6>>] : m \in MonsterSpots}
CellOf(p) == [c |-> p.c, r |-> p.r, key |-> <<p.c, p.r>>]
PlanAsks(spots) ==
  {[ran |-> FALSE, reset |-> FALSE, probe |-> "ask", fn |-> "targetCell",
    tc |-> CellOf(g)] : g \in Cells}
  \cup
  {[ran |-> FALSE, reset |-> FALSE, probe |-> "ask", fn |-> "buildPathBetween",
    m |-> m, mc |-> pointToCell(m.x + m.w \div 2, m.y + m.h \div 2),
    tc |-> CellOf(g)] : m \in spots, g \in Cells}
  \cup
  {[ran |-> FALSE, reset |-> FALSE, probe |-> "ask", fn |-> "buildPathTo",
    m |-> m, targetX |-> cellCenter(g.c, g.r).x,
    targetY |-> cellCenter(g.c, g.r).y] : m \in spots, g \in Cells}
InitPlan ==
  /\ player = playerInit
  /\ monster = monsterNavInit
  /\ flames = <<>>
  /\ startTs = 0
  /\ lastTs = 0
  /\ elapsed = 0
  /\ state = "running"
  /\ status = "running"
  /\ clock = 0
  /\ nTicks = 0
  /\ nResets = 0
  /\ ev \in PlanAsks(TravelledSpots)
  /\ hist = histNone
RunTargetCell ==
  /\ ev.probe = "ask" /\ ev.fn = "targetCell"
  /\ ev' = [ran |-> FALSE, reset |-> FALSE, probe |-> "targetCell",
            tc |-> ev.tc, out |-> targetCell(ev.tc)]
  /\ UNCHANGED <<player, monster, flames, startTs, lastTs, elapsed, state,
                 status, clock, nTicks, nResets, hist>>
RunBuildPathBetween ==
  /\ ev.probe = "ask" /\ ev.fn = "buildPathBetween"
  /\ ev' = [ran |-> FALSE, reset |-> FALSE, probe |-> "buildPathBetween",
            m |-> ev.m, mc |-> ev.mc, tc |-> ev.tc,
            out |-> buildPathBetween(ev.m, ev.mc, ev.tc)]
  /\ UNCHANGED <<player, monster, flames, startTs, lastTs, elapsed, state,
                 status, clock, nTicks, nResets, hist>>
RunBuildPathFrom ==
  /\ ev.probe = "ask" /\ ev.fn = "buildPathTo"
  /\ ev' = [ran |-> FALSE, reset |-> FALSE, probe |-> "buildPathTo",
            m |-> ev.m, targetX |-> ev.targetX, targetY |-> ev.targetY,
            out |-> buildPathTo(ev.m, ev.targetX, ev.targetY)]
  /\ UNCHANGED <<player, monster, flames, startTs, lastTs, elapsed, state,
                 status, clock, nTicks, nResets, hist>>
NextPlan == RunTargetCell \/ RunBuildPathBetween \/ RunBuildPathFrom
SpecPlan == InitPlan /\ [][NextPlan]_vars

(* ------------------------------- claims ------------------------------- *)
\* C1: a tick in which the monster overlaps the player after the monster's
\* update ends lost with the status 'mauled', whatever the monster saw and
\* whatever the flames did.
C1_ContactLoses ==
  (ev.ran /\ ev.contact) => (state = "lost" /\ status = "mauled (press R)")

\* a flame of the log of the last tick, as the loop of updateFlames met it
Live(e) == ev.now - e.flame.bornAt <= e.flame.ttlMs
OffWalls(e) ==
  \A i \in 1..Len(walls) :
     \/ e.flame.x + e.flame.r <= walls[i].x
     \/ e.flame.x - e.flame.r >= walls[i].x + walls[i].w
     \/ e.flame.y + e.flame.r <= walls[i].y
     \/ e.flame.y - e.flame.r >= walls[i].y + walls[i].h
OnPlayer(e) ==
  /\ e.flame.x + e.flame.r > ev.afterPlayer.x
  /\ e.flame.x - e.flame.r < ev.afterPlayer.x + ev.afterPlayer.w
  /\ e.flame.y + e.flame.r > ev.afterPlayer.y
  /\ e.flame.y - e.flame.r < ev.afterPlayer.y + ev.afterPlayer.h
Struck(e) == Live(e) /\ OffWalls(e) /\ OnPlayer(e)
Up(sh) == sh.active /\ ev.now >= sh.brokenUntil /\ sh.durability > 0
\* (a flame is known by its birth time and its velocity)
Removed(e) ==
  \A j \in 1..Len(flames) :
     \/ flames[j].bornAt # e.flame.bornAt
     \/ flames[j].vx # e.flame.vx
     \/ flames[j].vy # e.flame.vy
Entries == IF ev.ran THEN {ev.log[i] : i \in 1..Len(ev.log)} ELSE {}
\* the number of hits the shield took among the first i flames of the log
RECURSIVE Absorbed(_)
Absorbed(i) ==
  IF i = 0 THEN 0
  ELSE Absorbed(i - 1) +
       (IF Struck(ev.log[i]) /\ Up(ev.log[i].shield) THEN 1 ELSE 0)

\* C2: in updateFlames, a flame that has not expired, overlaps no wall and
\* overlaps the player while the shield is not up makes the state lost with
\* the status 'burned', and is removed from the flames.
C2_UnshieldedHitBurns ==
  \A e \in Entries :
     (Struck(e) /\ ~Up(e.shield)) =>
        /\ e.did = "burned" /\ e.stateAfter = "lost"
        /\ ev.afterFlames = "lost" /\ ev.statusAfterFlames = "burned (press R)"
        /\ Removed(e)

C2_Witness ==
  \E e \in Entries : Struck(e) /\ ~e.shield.active /\ e.state = "running"
                       /\ state = "lost" /\ status = "burned (press R)"

\* C3: a flame that hits the player while the shield is up is removed, takes
\* exactly hitCost from the durability (not below 0) and leaves the terminal
\* state as it was; a hit on a full shield leaves max - hitCost.
C3_ShieldedHitAbsorbed ==
  \A e \in Entries :
     (Struck(e) /\ Up(e.shield)) =>
        /\ e.did = "absorbed" /\ Removed(e)
        /\ e.shieldAfter.durability =
              Max(0, e.shield.durability - player.shield.hitCost)
        /\ e.stateAfter = e.state
        /\ e.shield.durability = player.shield.max =>
              e.shieldAfter.durability = player.shield.max - player.shield.hitCost

C3_Witness ==
  /\ ev.ran /\ Len(ev.log) > 0 /\ Absorbed(Len(ev.log)) = 1
  /\ ev.before.durability = player.shield.max
  /\ player.shield.durability = player.shield.max - player.shield.hitCost
  /\ state = "running"

\* C4: while now < brokenUntil the shield is not up although the key is
\* held, and every flame that hits the player then is a loss.
C4_BrokenShieldDown ==
  /\ (ev.ran /\ ev.now < ev.afterPlayer.shield.brokenUntil) =>
        ~shieldIsUp(ev.afterPlayer, ev.now)
  /\ \A e \in Entries :
        (ev.now < e.shield.brokenUntil /\ Struck(e)) =>
           (e.did = "burned" /\ e.stateAfter = "lost" /\ ev.afterFlames = "lost")

C4_Witness ==
  \E e \in Entries : /\ e.shield.active /\ ev.now < ev.before.brokenUntil
                       /\ Struck(e) /\ e.did = "burned"

\* C5: in a tick that starts with the shield up, after the N-th absorbed hit
\* the durability is max(0, d0 - N * hitCost), d0 the durability before the
\* tick; a hit that empties the shield sets brokenUntil to now + the
\* cooldown, and a hit is absorbed only at a tick with now >= brokenUntil.
C5_ShieldConservation ==
  ev.ran =>
    /\ \A i \in 1..Len(ev.log) :
          ev.log[i].did = "absorbed" =>
             /\ ev.keys.shield /\ ev.now >= ev.log[i].shield.brokenUntil
             /\ ev.log[i].shieldAfter.durability =
                   Max(0, ev.before.durability - Absorbed(i) * player.shield.hitCost)
             /\ ev.log[i].shieldAfter.durability = 0 =>
                   ev.log[i].shieldAfter.brokenUntil =
                      ev.now + player.shield.breakCooldownMs
    /\ (ev.keys.shield /\ ev.now >= ev.before.brokenUntil /\ ev.before.durability > 0) =>
          player.shield.durability =
             Max(0, ev.before.durability
                      - Absorbed(Len(ev.log)) * player.shield.hitCost)

C5_Witness ==
  /\ ev.ran /\ Len(ev.log) > 0 /\ Absorbed(Len(ev.log)) >= 2
  /\ player.shield.durability = 0
  /\ player.shield.brokenUntil = ev.now + player.shield.breakCooldownMs

\* C6: the durability of the shield is always within [0, max], also between
\* two flames of one pass of updateFlames.
C6_DurabilityInRange ==
  /\ player.shield.durability \in 0..player.shield.max
  /\ \A e \in Entries : e.shieldAfter.durability \in 0..player.shield.max

C6_Witness ==
  \E e \in Entries : /\ e.did = "absorbed"
                       /\ e.shield.durability < player.shield.hitCost
                       /\ e.shieldAfter.durability = 0

\* C7: in a round in which no movement key has been held and the monster has
\* never had line of sight, the round is running while the elapsed time is
\* below the goal and won as soon as a tick reaches the goal.
C7_WinScenario ==
  (~hist.moved /\ ~hist.seen) =>
     state = (IF elapsed >= GOAL_SECONDS * 1000 THEN "won" ELSE "running")

C7_Witness ==
  /\ ev.ran /\ ~hist.moved /\ ~hist.seen
  /\ elapsed >= GOAL_SECONDS * 1000 /\ state = "won"

\* C8: the round is won only by a tick that ran the updates (the round was
\* running) and whose timestamp is at least 30 s after the timestamp of the
\* first tick of the round.
C8_WonOnlyAtGoal ==
  /\ state = "won" => /\ hist.first > 0
                      /\ elapsed >= 30000
                      /\ ev.ran => elapsed = ev.now - hist.first
  /\ (ev.ran /\ ev.now - hist.first < 30000) => state # "won"

C8_Witness ==
  /\ state = "won" /\ ev.ran /\ nResets = 1
  /\ hist.first > 5000 /\ elapsed = ev.now - hist.first

\* C9: after any sequence of calls of moveEntity, with any velocity and any
\* frame time, the entity lies within the canvas: 0 <= x, x + w <= W,
\* 0 <= y, y + h <= H.
C9_InsideCanvas ==
  \A e \in {player, monster} :
     0 <= e.x /\ e.x + e.w <= W /\ 0 <= e.y /\ e.y + e.h <= H

C9_Witness ==
  /\ nTicks >= 2
  /\ player.x + player.w = W /\ player.y = 0
  /\ monster.x = 0 /\ monster.y + monster.h = H

\* C10: in each running tick of the A* variant exactly one of three cases
\* applies: with line of sight the target is the player's centre and
\* lastSeen becomes (that centre, now); without, while now - lastSeen.at
\* < 2500 ms, the target is the remembered position; otherwise the monster
\* patrols toward its wander point.  (Line of sight is taken from the
\* monster's centre before it moves to the player's centre after the
\* player's update.)
C10_PerceptionRule ==
  ev.ran =>
    LET t == ev.target
        pcx == ev.afterPlayer.x + ev.afterPlayer.w \div 2
        pcy == ev.afterPlayer.y + ev.afterPlayer.h \div 2
        los == hasLineOfSight(t.from.x, t.from.y, pcx, pcy)
        fresh == ev.now - t.memory.at < 2500
    IN /\ t.kind \in {"player", "lastSeen", "patrol"}
       /\ los => /\ t.kind = "player" /\ t.x = pcx /\ t.y = pcy
                 /\ monster.lastSeen = [x |-> pcx, y |-> pcy, at |-> ev.now]
       /\ (~los /\ fresh) =>
             /\ t.kind = "lastSeen" /\ t.x = t.memory.x /\ t.y = t.memory.y
             /\ monster.lastSeen = t.memory
       /\ (~los /\ ~fresh) =>
             /\ t.kind = "patrol"
             /\ t.x = monster.wander.x /\ t.y = monster.wander.y
             /\ monster.lastSeen = t.memory
       /\ monster.nextPathAt = ev.now + 220 => (los \/ fresh)
       /\ monster.nextPathAt = ev.now + 350 => (~los /\ ~fresh)

C10_Witness ==
  /\ ev.ran /\ ev.target.kind = "lastSeen" /\ ~ev.sees
  /\ ev.target.memory.at > 0 /\ hist.seen
  /\ ev.now - ev.target.memory.at < 2500
  /\ ev.target.x = monster.lastSeen.x /\ ev.target.y = monster.lastSeen.y

\* C11: in a tick in which a wall blocks the segment between the centre of
\* the monster (before it moves) and the centre of the player (after the
\* player's update), no flame is added, even while a breath window that
\* began earlier is still open.
Blocked ==
  LET m == ev.monsterBefore
      p == ev.afterPlayer
  IN \E i \in 1..Len(walls) :
        segmentIntersectsRect(m.x + m.w \div 2, m.y + m.h \div 2,
                              p.x + p.w \div 2, p.y + p.h \div 2, walls[i])
C11_NoFlameWithoutSight ==
  (ev.ran /\ Blocked) =>
     /\ ev.emitted = 0
     /\ \A i \in 1..Len(ev.log) : ev.log[i].flame.bornAt < ev.now

C11_Witness ==
  /\ ev.ran /\ Blocked /\ ev.emitted = 0
  /\ ev.now < ev.monsterBefore.breathActiveUntil
  /\ ev.now < monster.breathActiveUntil

\* two cells are 4-adjacent
Adjacent(a, b) == Abs(a.c - b.c) + Abs(a.r - b.r) = 1
ChebDist(a, b) == Max(Abs(a.c - b.c), Abs(a.r - b.r))
\* the cell a waypoint is the centre of, <<>> if it is the centre of none
CellsAt(wp) == {p \in Cells : cellCenter(p.c, p.r) = wp}
\* the free cell that stands for a blocked target cell: the first, row by
\* row, of the free cells of the smallest square around it that has one
Substitute(tc, p) ==
  /\ p \in FreeCells
  /\ ChebDist(p, tc) <= 4
  /\ \A q \in FreeCells :
        \/ ChebDist(q, tc) > ChebDist(p, tc)
        \/ /\ ChebDist(q, tc) = ChebDist(p, tc)
           /\ (q.r > p.r \/ (q.r = p.r /\ q.c >= p.c))

\* C12: whenever buildPathTo succeeds, every waypoint is the centre of an
\* in-bounds unblocked cell, consecutive waypoints are centres of 4-adjacent
\* cells, the first waypoint's cell is 4-adjacent to the monster's cell, and
\* the last waypoint's cell is the target's cell or, when that is blocked,
\* the free cell that stands for it.
PathCell(path, i) == pointToCell(path[i].x, path[i].y)
C12_PathValid ==
  (ev.probe = "buildPathTo" /\ ev.out.ok) =>
     LET path == ev.out.monster.path
         n == Len(path)
         mc == pointToCell(ev.m.x + ev.m.w \div 2, ev.m.y + ev.m.h \div 2)
         tc == pointToCell(ev.targetX, ev.targetY)
         last == [c |-> PathCell(path, n).c, r |-> PathCell(path, n).r]
     IN /\ n >= 1
        /\ ev.out.monster.pathIdx = 0
        /\ \A i \in 1..n : CellsAt(path[i]) # {} /\ CellsAt(path[i]) \subseteq FreeCells
        /\ \A i \in 1..(n - 1) : Adjacent(PathCell(path, i), PathCell(path, i + 1))
        /\ Adjacent(mc, PathCell(path, 1))
        /\ IF ~isBlocked(tc.c, tc.r)
           THEN last = [c |-> tc.c, r |-> tc.r]
           ELSE Substitute(tc, last)

\* a route of at least two waypoints to the substitute of a blocked target
C12_Witness ==
  /\ ev.probe = "buildPathTo" /\ ev.out.ok
  /\ Len(ev.out.monster.path) >= 2
  /\ isBlocked(pointToCell(ev.targetX, ev.targetY).c,
               pointToCell(ev.targetX, ev.targetY).r)

\* the least number of steps of a 4-connected route through unblocked cells
\* from the cells of frontier to goal, -1 if there is none: flooding, one
\* ring of cells at a time
RECURSIVE Flood(_, _, _, _)
FloodOn(next, seen, goal, d) == Flood(next, seen \cup next, goal, d)
Flood(frontier, seen, goal, d) ==
  IF goal \in frontier THEN d
  ELSE IF frontier = {} THEN -1
  ELSE FloodOn({q \in FreeCells \ seen : \E f \in frontier : Adjacent(f, q)},
               seen, goal, d + 1)
Steps(start, goal) == Flood({start}, {start}, goal, 0)

\* C13: from an unblocked cell aStar returns the cells of a 4-connected
\* route through unblocked cells that begins with the start, ends with the
\* goal and has the least number of steps of all such routes; it returns
\* null exactly when there is no route (here: when the goal is a blocked
\* cell, every two unblocked cells of the arena being joined by a route).
RouteOf(cells, start, goal, d) ==
  IF d < 0 THEN cells = <<>>
  ELSE /\ Len(cells) = d + 1
       /\ cells[1] = start
       /\ cells[Len(cells)] = goal
       /\ \A i \in 1..Len(cells) : cells[i] \in FreeCells
       /\ \A i \in 1..(Len(cells) - 1) : Adjacent(cells[i], cells[i + 1])
C13_ShortestRoute ==
  ev.probe = "aStar" => RouteOf(ev.cells, ev.start, ev.goal, Steps(ev.start, ev.goal))

\* a shortest route that has to go round a wall: more steps than the
\* manhattan distance
C13_Witness ==
  /\ ev.probe = "aStar"
  /\ ~isBlocked(ev.goal.c, ev.goal.r)
  /\ Len(ev.cells) - 1 > h(ev.start.c, ev.start.r, ev.goal)

\* the last step was a tick that replanned: it set nextPathAt anew; the
\* cooldown it started is 220 ms with a target (the player or the place last
\* seen), 350 ms on patrol
Replanned == ev.ran /\ monster.nextPathAt # ev.monsterBefore.nextPathAt
Cooldown(e) == IF e.target.kind = "patrol" THEN 350 ELSE 220
TargetCellOf(e) == pointToCell(e.target.x, e.target.y).key

\* C14: of two ticks in a row with the target in the same cell of the grid,
\* the second does not replan when the first did less than the cooldown
\* before.
C14_ReplanThrottled ==
  [][(Replanned /\ ev'.ran /\ TargetCellOf(ev') = TargetCellOf(ev)
        /\ ev'.now - ev.now < Cooldown(ev))
     => monster'.nextPathAt = monster.nextPathAt]_vars

\* the last tick asked for a path and got none: it replanned, no straight
\* line led to the target, and buildPathTo returned false
PathFailed ==
  /\ Replanned
  /\ ~hasLineOfSight(ev.target.from.x, ev.target.from.y, ev.target.x, ev.target.y)
  /\ ~buildPathTo(ev.monsterBefore, ev.target.x, ev.target.y).ok
\* the monster is where steering straight at the target at the given speed
\* takes it from where it was
SteeredAt(m, v, speed) == moveEntity(m, v.x * speed, v.y * speed, ev.dt)
Steered ==
  LET m1 == SteeredAt(ev.monsterBefore,
                      norm(ev.target.x - ev.target.from.x,
                           ev.target.y - ev.target.from.y),
                      IF ev.target.kind = "patrol"
                      THEN ev.monsterBefore.speedPatrol
                      ELSE ev.monsterBefore.speedChase)
  IN monster.x = m1.x /\ monster.y = m1.y

\* C15: in a tick whose path request fails the monster moves by steering
\* straight at its target; it neither stalls nor follows waypoints.
C15_FailedPathSteers ==
  PathFailed => (Steered /\ monster.pathIdx = ev.monsterBefore.pathIdx)

\* the flame f of the start of the pass, once integrated over the frame time
Integrated(f) == [f EXCEPT !.x = @ + RoundDiv(f.vx * ev.dt, 1000000),
                           !.y = @ + RoundDiv(f.vy * ev.dt, 1000000)]
\* the flames the pass kept, in the order of the list
RECURSIVE KeptOf(_)
KeptOf(i) ==
  IF i = 0 THEN <<>>
  ELSE LET e == ev.log[Len(ev.log) + 1 - i]
       IN IF Struck(e) \/ ~Live(e) \/ ~OffWalls(e)
          THEN KeptOf(i - 1) ELSE Append(KeptOf(i - 1), e.flame)

\* C16: updateFlames visits every flame that is live at the start of the
\* pass exactly once, from the last to the first; a flame ends by expiry, else
\* by a wall, else by hitting the player, and is then removed in the same
\* pass, the others staying in their order; a flame that expired or touched a
\* wall leaves the shield and the state of the round as they were.
C16_OneEventPerFlame ==
  ev.ran =>
     LET n == Len(ev.flamesBefore)
     IN /\ Len(ev.log) = n
        /\ \A i \in 1..n : ev.log[n + 1 - i].flame = Integrated(ev.flamesBefore[i])
        /\ \A e \in Entries :
              /\ e.did = (IF ~Live(e) THEN "expired"
                          ELSE IF ~OffWalls(e) THEN "wall"
                          ELSE IF ~OnPlayer(e) THEN "kept"
                          ELSE IF Up(e.shield) THEN "absorbed" ELSE "burned")
              /\ (~Live(e) \/ ~OffWalls(e)) =>
                    (e.shieldAfter = e.shield /\ e.stateAfter = e.state)
        /\ flames = KeptOf(n)

\* a pass over several flames in which one expires, one ends on a wall and
\* one stays
C16_Witness ==
  /\ ev.ran
  /\ \E e \in Entries : ~Live(e)
  /\ \E e \in Entries : Live(e) /\ ~OffWalls(e)
  /\ \E e \in Entries : Live(e) /\ OffWalls(e) /\ ~OnPlayer(e)

\* C17: whatever the state reset() is called in, it leaves the startup values:
\* the player at the start with full stamina and the shield lowered, whole and
\* not broken; the monster at its start with its first wander target, its
\* breath timers at 0, no path, path index 0, replan timer 0, no last-target
\* key and the first last-seen memory; no flames; the clocks and the elapsed
\* time at 0; the round running.
C17_ResetRestores ==
  ev.reset =>
     /\ player.x = playerInit.x /\ player.y = playerInit.y
     /\ player.stamina = player.staminaMax
     /\ player.shield.active = FALSE
     /\ player.shield.durability = player.shield.max
     /\ player.shield.brokenUntil = 0
     /\ player = playerInit
     /\ monster.x = monsterNavInit.x /\ monster.y = monsterNavInit.y
     /\ monster.wander = [x |-> W \div 2, y |-> H \div 2, until |-> 0]
     /\ monster.breathActiveUntil = 0 /\ monster.lastBreathAt = 0
     /\ monster.path = <<>> /\ monster.pathIdx = 0
     /\ monster.nextPathAt = 0
     /\ monster.lastTargetKey = <<>>
     /\ monster.lastSeen = [x |-> W \div 2, y |-> H \div 2, at |-> 0]
     /\ monster = monsterNavInit
     /\ flames = <<>>
     /\ startTs = 0 /\ lastTs = 0 /\ elapsed = 0
     /\ state = "running" /\ status = "running"

\* a reset of a lost round in which the monster had a path and flames flew
C17_Witness ==
  /\ ev.reset
  /\ ev.was.state = "lost" /\ ev.was.path /\ ev.was.flames
  /\ state = "running"

\* C18: hasLineOfSight(a, b) and hasLineOfSight(b, a) are the same, for all
\* points a and b.
C18_SightSymmetric ==
  ev.probe = "hasLineOfSight" => (ev.ab = ev.ba)

\* two different points, one of them inside a wall: no sight either way
C18_Witness ==
  /\ ev.probe = "hasLineOfSight"
  /\ ev.a # ev.b
  /\ \E i \in 1..Len(walls) : pointInRect(ev.b.x, ev.b.y, walls[i])
  /\ \A i \in 1..Len(walls) : ~pointInRect(ev.a.x, ev.a.y, walls[i])
  /\ ~ev.ab /\ ~ev.ba

\* the corners of r lie on both sides of the line through the segment, or
\* on it
Side(x1, y1, x2, y2, cx, cy) == (x2 - x1) * (cy - y1) - (y2 - y1) * (cx - x1)
Straddles(x1, y1, x2, y2, r) ==
  LET s == {Side(x1, y1, x2, y2, cx, cy) : cx \in {r.x, r.x + r.w},
                                          cy \in {r.y, r.y + r.h}}
  IN ~(\A v \in s : v > 0) /\ ~(\A v \in s : v < 0)
\* the segment and the rectangle, edges included, share a point: no side of
\* the rectangle and not the line of the segment separates them
SharesPoint(x1, y1, x2, y2, r) ==
  /\ Max(x1, x2) >= r.x /\ Min(x1, x2) <= r.x + r.w
  /\ Max(y1, y2) >= r.y /\ Min(y1, y2) <= r.y + r.h
  /\ Straddles(x1, y1, x2, y2, r)

\* C19: segmentIntersectsRect is true exactly when the segment shares a point
\* with the rectangle, edges and corners included, also for segments of
\* length zero and segments along an axis.
C19_SegmentMeetsRect ==
  ev.probe = "segmentIntersectsRect" =>
     (ev.out = SharesPoint(ev.x1, ev.y1, ev.x2, ev.y2, ev.r))

\* both end points outside, the segment slanted and crossing the rectangle
C19_Witness ==
  /\ ev.probe = "segmentIntersectsRect"
  /\ ~pointInRect(ev.x1, ev.y1, ev.r) /\ ~pointInRect(ev.x2, ev.y2, ev.r)
  /\ ev.x1 # ev.x2 /\ ev.y1 # ev.y2
  /\ ev.out

\* C20: resolveStaticCollision leaves a mover alone that does not overlap the
\* obstacle, a mover that only touches it along an edge included.
Apart(a, b) ==
  \/ a.x + a.w <= b.x
  \/ b.x + b.w <= a.x
  \/ a.y + a.h <= b.y
  \/ b.y + b.h <= a.y
C20_ApartUntouched ==
  (ev.probe = "resolveStaticCollision" /\ Apart(ev.mover, ev.stat)) =>
     ev.out = ev.mover

\* a mover whose right edge lies on the left edge of the obstacle
C20_Witness ==
  /\ ev.probe = "resolveStaticCollision"
  /\ ev.mover.x + ev.mover.w = ev.stat.x
  /\ ev.mover.y < ev.stat.y + ev.stat.h /\ ev.stat.y < ev.mover.y + ev.mover.h
  /\ ev.out = ev.mover

\* the square of the grid that is the cell (c, r), and whether it overlaps a
\* wall of the canvas cv inflated by the safety margin
CellArea(c, r) == rect(c * NAV_CELL_PX, r * NAV_CELL_PX, NAV_CELL_PX, NAV_CELL_PX)
OverInflatedWall(cv, c, r) ==
  \E k \in 1..Len(wallsPx(cv.w, cv.h)) :
     ~Apart(CellArea(c, r), inflatedPx(wallsPx(cv.w, cv.h)[k]))

\* C21: isBlocked reports as blocked every cell outside the grid and every
\* cell of the grid whose area overlaps a wall inflated by the safety margin.
C21_BlockedCoversInflated ==
  ev.probe = "isBlocked" =>
     /\ ~inBoundsPx(ev.canvas.w, ev.canvas.h, ev.c, ev.r) => ev.out
     /\ OverInflatedWall(ev.canvas, ev.c, ev.r) => ev.out

\* C22: the path index of the monster is always between 0 and the length of
\* its path; when it equals the length followPath reads no waypoint, reports
\* the path as unusable and leaves the monster as it is.
C22_PathIdxInRange ==
  /\ monster.pathIdx >= 0
  /\ monster.pathIdx <= Len(monster.path)
  /\ monster.pathIdx = Len(monster.path) =>
        \A dt \in {0, 16, DT_CAP} :
           followPath(monster, dt, monster.speedPatrol) = [ok |-> FALSE, monster |-> monster]

\* a path of waypoints that has been walked to its end
C22_Witness ==
  /\ Len(monster.path) > 0
  /\ monster.pathIdx = Len(monster.path)
  /\ ev.ran /\ ev.monsterBefore.pathIdx < monster.pathIdx

\* C23: the stamina of the player is always between 0 and staminaMax: drain
\* and regeneration stop at the bounds.
C23_StaminaInRange ==
  player.stamina >= 0 /\ player.stamina <= player.staminaMax

\* a sprint that would have drained more stamina than was left
C23_Witness ==
  /\ ev.probe = "updatePlayer"
  /\ ev.keys.sprint /\ ev.stamina > 1000
  /\ ev.stamina < playerInit.staminaDrainPerSec * ev.dt
  /\ player.stamina = 0

\* the last tick found the path empty or used up when it came to follow it:
\* the path and its index are as before the tick, the index is at the end,
\* and the tick did not replace the path (it did not replan, or its request
\* for a path failed)
FellBack ==
  /\ ev.ran
  /\ monster.path = ev.monsterBefore.path
  /\ monster.pathIdx = ev.monsterBefore.pathIdx
  /\ monster.pathIdx >= Len(monster.path)
  /\ (~Replanned \/ PathFailed)
\* with the player in sight the monster follows its path only beyond the
\* desired distance (105 px)
Holding ==
  /\ ev.target.kind = "player"
  /\ len(ev.target.x - ev.target.from.x, ev.target.y - ev.target.from.y) <= 11500

LossDetected ==
  ev.ran /\ (ev.contact \/ ev.afterMonster = "lost" \/ ev.afterFlames = "lost")
C25_LossIsFinal ==
  LossDetected => state = "lost"

\* C26: moveEntity, called on an entity that overlaps no wall with a
\* displacement within what its speed allows in one frame, leaves the entity
\* overlapping no wall and within the arena, also where two walls meet at a
\* corner or cross.
C26_MoveKeepsClear ==
  ev.probe = "moveEntity" =>
     /\ clearOfWallsPx(ev.canvas.w, ev.canvas.h, ev.out)
     /\ 0 <= ev.out.x /\ ev.out.x + ev.out.w <= ev.canvas.w
     /\ 0 <= ev.out.y /\ ev.out.y + ev.out.h <= ev.canvas.h

\* C27: for a mover that intersects an obstacle, one call of
\* resolveStaticCollision displaces the mover along exactly one axis, the
\* axis of the smaller overlap (y when the overlaps are equal), and the
\* mover no longer intersects the obstacle.
OverlapOn(a1, a2, b1, b2) == Min(a2, b2) - Max(a1, b1)
C27_ResolveSeparates ==
  (ev.probe = "resolveStaticCollision" /\ intersectsAABB(ev.mover, ev.stat)) =>
     LET ox == OverlapOn(ev.mover.x, ev.mover.x + ev.mover.w,
                         ev.stat.x, ev.stat.x + ev.stat.w)
         oy == OverlapOn(ev.mover.y, ev.mover.y + ev.mover.h,
                         ev.stat.y, ev.stat.y + ev.stat.h)
     IN /\ IF ox < oy
           THEN ev.out.x # ev.mover.x /\ ev.out.y = ev.mover.y
           ELSE ev.out.y # ev.mover.y /\ ev.out.x = ev.mover.x
        /\ ~intersectsAABB(ev.out, ev.stat)

\* C28: a breath window starts (lastBreathAt and breathActiveUntil are set)
\* only in a tick with line of sight and now - lastBreathAt >= 900 ms, and
\* it lasts 700 ms; every tick with line of sight and now < breathActiveUntil
\* adds exactly 9 flames; a tick with line of sight, now >= breathActiveUntil
\* and the cooldown not elapsed adds none.
BreathStarted ==
  \/ monster.lastBreathAt # ev.monsterBefore.lastBreathAt
  \/ monster.breathActiveUntil # ev.monsterBefore.breathActiveUntil
C28_BreathWindow ==
  ev.ran =>
     /\ BreathStarted =>
           /\ ev.sees
           /\ ev.now - ev.monsterBefore.lastBreathAt >= 900
           /\ monster.lastBreathAt = ev.now
           /\ monster.breathActiveUntil = ev.now + 700
     /\ (ev.sees /\ ev.now < monster.breathActiveUntil) => ev.emitted = 9
     /\ (ev.sees /\ ev.now >= monster.breathActiveUntil
                 /\ ev.now - ev.monsterBefore.lastBreathAt < 900) => ev.emitted = 0
C28_Witness ==
  /\ ev.ran /\ ev.sees /\ ~BreathStarted
  /\ ev.now < monster.breathActiveUntil
  /\ ev.emitted = 9
C28_WitnessPause ==
  /\ ev.ran /\ ev.sees /\ ~BreathStarted
  /\ monster.lastBreathAt > 0
  /\ ev.now >= monster.breathActiveUntil
  /\ ev.emitted = 0

\* C29: a tick in which the monster targets the remembered last-seen
\* position (it investigates) comes only after a tick of the same round in
\* which line of sight held, at most 2500 ms earlier; in a round in which
\* the player has never been seen no tick investigates.
Investigates == ev.ran /\ ev.target.kind = "lastSeen"
C29_InvestigatesAfterSight ==
  Investigates =>
     /\ hist.seen
     /\ ev.target.memory.at >= hist.first
     /\ ev.now - ev.target.memory.at < 2500

\* C30: in a tick that replans, when the segment from the monster's centre
\* to the target is clear of the walls the path is exactly the one waypoint
\* at the target, with index 0 (1 once followPath, later in the tick, finds
\* the monster already there), and lastTargetKey is the key of the target's
\* cell: the grid search has no part in it.  Only when the segment is
\* blocked are the path and the key those that buildPathTo leaves.
Direct ==
  hasLineOfSight(ev.target.from.x, ev.target.from.y, ev.target.x, ev.target.y)
C30_DirectShortcut ==
  Replanned =>
     IF Direct
     THEN /\ monster.path = <<[x |-> ev.target.x, y |-> ev.target.y]>>
          /\ monster.lastTargetKey = TargetCellOf(ev)
          /\ \/ monster.pathIdx = 0
             \/ /\ monster.pathIdx = 1
                /\ len(ev.target.x - ev.target.from.x,
                       ev.target.y - ev.target.from.y) < 650
     ELSE LET b == buildPathTo(ev.monsterBefore, ev.target.x, ev.target.y).monster
          IN /\ monster.path = b.path
             /\ monster.lastTargetKey = b.lastTargetKey
C30_Witness ==
  /\ Replanned /\ Direct
  /\ ev.target.kind = "patrol"
  /\ monster.path = <<[x |-> ev.target.x, y |-> ev.target.y]>>
  /\ monster.pathIdx = 0
  /\ ev.monsterBefore.path # monster.path
  /\ Len(ev.monsterBefore.path) > 1

\* C31: for a blocked target cell buildPathTo takes, before the search, the
\* free in-bounds cell of the smallest square of radius 1..4 around it that
\* has one (the first of them row by row); a free target cell is kept; and
\* with a target cell that is still blocked (no free cell within radius 4)
\* the request fails and the search gives no path.
FreeNear(tc) == {p \in FreeCells : ChebDist(p, tc) <= 4}
C31_BlockedTargetRetargets ==
  /\ ev.probe = "targetCell" =>
        IF ~isBlocked(ev.tc.c, ev.tc.r) THEN ev.out = ev.tc
        ELSE IF FreeNear(ev.tc) = {} THEN ev.out = ev.tc
        ELSE /\ Substitute(ev.tc, [c |-> ev.out.c, r |-> ev.out.r])
             /\ ev.out.key = <<ev.out.c, ev.out.r>>
             /\ inBounds(ev.out.c, ev.out.r)
             /\ \A q \in FreeCells : ChebDist(q, ev.tc) >= ChebDist(ev.out, ev.tc)
  /\ (ev.probe = "buildPathBetween" /\ isBlocked(ev.tc.c, ev.tc.r)) =>
        ~ev.out.ok /\ ev.out.monster = ev.m
C31_Witness ==
  /\ ev.probe = "targetCell"
  /\ isBlocked(ev.tc.c, ev.tc.r)
  /\ ChebDist(ev.out, ev.tc) = 2
  /\ Cardinality({q \in FreeCells : ChebDist(q, ev.tc) = 2}) > 1

\* C32: buildPathTo returns false exactly when the start cell is blocked,
\* the goal cell (after the search for a substitute) is blocked, there is no
\* route, or start and goal are the same cell; and a request that returns
\* false leaves the monster's path, pathIdx and lastTargetKey (and the rest
\* of the monster) as they were.
StartOf(m) == CellOf(pointToCell(m.x + m.w \div 2, m.y + m.h \div 2))
MustFail(mc, tc) ==
  \/ isBlocked(mc.c, mc.r)
  \/ isBlocked(tc.c, tc.r)
  \/ mc = tc
  \/ Steps([c |-> mc.c, r |-> mc.r], [c |-> tc.c, r |-> tc.r]) < 0
FailsCleanly(m, mc, tc, out) ==
  /\ out.ok <=> ~MustFail(mc, tc)
  /\ ~out.ok => /\ out.monster.path = m.path
                /\ out.monster.pathIdx = m.pathIdx
                /\ out.monster.lastTargetKey = m.lastTargetKey
                /\ out.monster = m
C32_FailedRequestKeepsState ==
  /\ ev.probe = "buildPathBetween" => FailsCleanly(ev.m, ev.mc, ev.tc, ev.out)
  /\ ev.probe = "buildPathTo" =>
        FailsCleanly(ev.m, StartOf(ev.m),
                     targetCell(pointToCell(ev.targetX, ev.targetY)), ev.out)
\* a request for the cell the monster stands in, and one from a blocked cell
C32_Witness ==
  /\ ev.probe = "buildPathTo" /\ ~ev.out.ok
  /\ ~isBlocked(StartOf(ev.m).c, StartOf(ev.m).r)
  /\ StartOf(ev.m) = pointToCell(ev.targetX, ev.targetY)
  /\ Len(ev.out.monster.path) = 2 /\ ev.out.monster.pathIdx = 1
C32_WitnessBlocked ==
  /\ ev.probe = "buildPathTo" /\ ~ev.out.ok
  /\ isBlocked(StartOf(ev.m).c, StartOf(ev.m).r)
  /\ Len(ev.out.monster.path) = 2 /\ ev.out.monster.pathIdx = 1

\* C33: in a tick with line of sight the monster moves straight away from
\* the player (at 0.55 of its chase speed) when the distance of the centres
\* is below 70 px, advances when it is above 105 px (along its path, to the
\* next waypoint when it has reached one, or straight at the player when
\* the path is used up), and stays where it is when the distance is in
\* [70, 105]; the three cases exclude each other, 70 being below 105.
PlayerDist == len(ev.target.x - ev.target.from.x, ev.target.y - ev.target.from.y)
TowardPlayer == norm(ev.target.x - ev.target.from.x, ev.target.y - ev.target.from.y)
\* the monster as it is when the tick comes to move it
AboutToMove ==
  [monster EXCEPT !.x = ev.monsterBefore.x, !.y = ev.monsterBefore.y,
                  !.pathIdx = IF Replanned THEN 0 ELSE ev.monsterBefore.pathIdx]
Retreated ==
  LET m1 == moveEntity(ev.monsterBefore,
                       -TowardPlayer.x * ((ev.monsterBefore.speedChase * 55) \div 100),
                       -TowardPlayer.y * ((ev.monsterBefore.speedChase * 55) \div 100),
                       ev.dt)
  IN monster.x = m1.x /\ monster.y = m1.y /\ monster.pathIdx = AboutToMove.pathIdx
Advanced ==
  LET f == followPath(AboutToMove, ev.dt, monster.speedChase)
  IN IF f.ok
     THEN monster.x = f.monster.x /\ monster.y = f.monster.y
          /\ monster.pathIdx = f.monster.pathIdx
     ELSE Steered /\ monster.pathIdx = AboutToMove.pathIdx
Held ==
  /\ monster.x = ev.monsterBefore.x /\ monster.y = ev.monsterBefore.y
  /\ monster.pathIdx = AboutToMove.pathIdx
C33_DistanceBand ==
  (ev.ran /\ ev.sees) =>
     /\ ev.target.kind = "player"
     /\ PlayerDist < 7600 => Retreated
     /\ PlayerDist > 11500 => Advanced
     /\ (PlayerDist >= 7600 /\ PlayerDist <= 11500) => Held
C33_Witness ==
  /\ ev.ran /\ ev.sees /\ PlayerDist < 7600 /\ Retreated /\ ~Held
  /\ ev.dt > 0
C33_WitnessHeld ==
  /\ ev.ran /\ ev.sees /\ PlayerDist >= 7600 /\ PlayerDist <= 11500 /\ Held
  /\ ev.dt > 0 /\ ~Advanced
C33_WitnessAdvanced ==
  /\ ev.ran /\ ev.sees /\ PlayerDist > 11500 /\ Advanced /\ ~Held

\* C34: once the state is won or lost, a tick changes nothing of the
\* simulation (player, monster, flames, elapsed time) and the state and the
\* status text stay as they are; only reset leaves the terminal state.
C34_TerminalFrozen ==
  [][(state # "running" /\ nResets' = nResets) =>
        /\ player' = player /\ monster' = monster /\ flames' = flames
        /\ elapsed' = elapsed /\ state' = state /\ status' = status]_vars
\* a tick has come after the round was lost with flames in the air
C34_Witness ==
  /\ state = "lost" /\ ev = evNone /\ lastTs = clock /\ nTicks >= 2
  /\ flames # <<>>

\* C35: whenever the round is running at the end of a tick, the rectangles
\* of the player and of the monster do not overlap: the contact test of
\* updateMonster comes after the player's and the monster's move of the
\* tick, so a contact made by either move ends the round in that tick.
Overlapping(a, b) ==
  /\ Max(a.x, b.x) < Min(a.x + a.w, b.x + b.w)
  /\ Max(a.y, b.y) < Min(a.y + a.h, b.y + b.h)
C35_RunningMeansApart ==
  state = "running" => ~Overlapping(player, monster)
\* the player has walked into the monster and the tick has ended the round
C35_Witness ==
  /\ ev.ran /\ ev.contact /\ state = "lost"
  /\ Overlapping(player, monster)
  /\ ev.keys.dx # 0

\* C36: after every pass of updateFlames each flame still in the list is no
\* older than its time to live, its square probe overlaps no wall, and it
\* neither overlaps the player's rectangle nor has its centre in it; the
\* flames emitted in a tick go through the pass of that same tick.
ProbeOf(f) == rect(f.x - f.r, f.y - f.r, f.r * 2, f.r * 2)
InsideRect(px, py, r) ==
  px >= r.x /\ px <= r.x + r.w /\ py >= r.y /\ py <= r.y + r.h
Harmless(f) ==
  /\ ev.now - f.bornAt <= f.ttlMs
  /\ \A i \in 1..Len(walls) : ~Overlapping(ProbeOf(f), walls[i])
  /\ ~Overlapping(ProbeOf(f), rect(player.x, player.y, player.w, player.h))
  /\ ~InsideRect(f.x, f.y, player)
C36_LiveFlamesHarmless ==
  ev.ran =>
     /\ \A j \in 1..Len(flames) : Harmless(flames[j])
     /\ Len(ev.log) = Len(ev.flamesBefore)
     /\ Cardinality({i \in 1..Len(ev.log) : ev.log[i].flame.bornAt = ev.now})
           = ev.emitted
\* flames breathed in this tick: some are kept, one has gone out on a wall
C36_Witness ==
  /\ ev.ran /\ ev.emitted = 9
  /\ \E j \in 1..Len(flames) : flames[j].bornAt = ev.now
  /\ \E i \in 1..Len(ev.log) :
        ev.log[i].flame.bornAt = ev.now /\ ev.log[i].did # "kept"

\* C37: after the shield has broken, as long as the round runs and frames
\* keep coming with advancing time, a tick comes in which, after
\* updatePlayer, now >= brokenUntil and durability > 0, so that the shield
\* is up again if it is requested; the frames of the model end after
\* MaxShieldTicks, which excuses only a round whose cooldown is still
\* running then.
InCooldown == state = "running" /\ clock < player.shield.brokenUntil
Recovered ==
  /\ ev.ran
  /\ ev.now >= ev.afterPlayer.shield.brokenUntil
  /\ ev.afterPlayer.shield.durability > 0
  /\ ev.afterPlayer.shield.active => shieldIsUp(ev.afterPlayer, ev.now)
FramesEnded == nTicks = MaxShieldTicks /\ clock < player.shield.brokenUntil
C37_ShieldRecovers ==
  InCooldown ~> (Recovered \/ state # "running" \/ FramesEnded)
\* the shield broke earlier in the round and is up again
C37_Witness ==
  /\ Recovered /\ ev.afterPlayer.shield.brokenUntil > 0
  /\ ev.keys.shield /\ state = "running"

\* C38: updatePlayer either drains or regenerates the stamina, never both:
\* it drains, and moves the player at speed * sprintMult, exactly when a
\* direction key and shift are held and the stamina was above 1 when the
\* tick began; in every other case it regenerates and moves at the base speed.
Moving == ev.keys.dx # 0 \/ ev.keys.dy # 0
Sprints == Moving /\ ev.keys.sprint /\ ev.stamina > 1000
SpeedUsed ==
  IF Sprints THEN (ev.from.speed * ev.from.sprintMult) \div 100 ELSE ev.from.speed
MovedAt(speed) ==
  moveEntity(ev.from, norm(ev.keys.dx, ev.keys.dy).x * speed,
             norm(ev.keys.dx, ev.keys.dy).y * speed, ev.dt)
C38_DrainOrRegen ==
  ev.probe = "updatePlayer" =>
    /\ Sprints =>
          player.stamina = Max(0, ev.stamina - ev.from.staminaDrainPerSec * ev.dt)
    /\ ~Sprints =>
          player.stamina = Min(ev.from.staminaMax,
                               ev.stamina + ev.from.staminaRegenPerSec * ev.dt)
    /\ Moving => player.x = MovedAt(SpeedUsed).x /\ player.y = MovedAt(SpeedUsed).y
    /\ ~Moving => player.x = ev.from.x /\ player.y = ev.from.y

\* a full frame of sprinting: stamina went down and the player went further
\* than the base speed takes it
C38_Witness ==
  /\ ev.probe = "updatePlayer" /\ Sprints /\ ev.dt = DT_CAP
  /\ player.stamina < ev.stamina
  /\ player.x + player.y > MovedAt(ev.from.speed).x + MovedAt(ev.from.speed).y
\* shift and a direction key held with the stamina at 1 or below
C38_WitnessDry ==
  /\ ev.probe = "updatePlayer" /\ Moving /\ ev.keys.sprint /\ ev.stamina <= 1000
  /\ ev.dt > 0 /\ player.stamina > ev.stamina

\* C39: pickWanderTarget makes at most 40 attempts: the wander target becomes
\* the first of the 40 sampled points whose probe (12 x 12 around the point)
\* overlaps no wall, or the centre of the arena when all 40 were rejected,
\* and it expires strictly later than now; updateMonster replaces the wander
\* target only when now > wander.until.
SampleAt(i) == ev.r.samples[(i % Len(ev.r.samples)) + 1]
ProbeFree(q) ==
  \A i \in 1..Len(walls) :
     \/ q.x + 1 <= walls[i].x \/ walls[i].x + walls[i].w <= q.x - 1
     \/ q.y + 1 <= walls[i].y \/ walls[i].y + walls[i].h <= q.y - 1
Accepted == {i \in 0..39 : ProbeFree(SampleAt(i))}
FirstAccepted == CHOOSE i \in Accepted : \A j \in Accepted : i <= j
Picked ==
  /\ monster.wander.until > ev.now
  /\ IF Accepted = {}
     THEN monster.wander = [x |-> W \div 2, y |-> H \div 2, until |-> ev.now + 1000]
     ELSE /\ monster.wander.x = SampleAt(FirstAccepted).x
          /\ monster.wander.y = SampleAt(FirstAccepted).y
          /\ monster.wander.until >= ev.now + 1100
          /\ monster.wander.until < ev.now + 1100 + 1300
C39_WanderTarget ==
  /\ ev.probe = "pickWanderTarget" => Picked
  /\ ev.probe = "updateMonster" =>
        IF ~ev.sees /\ ev.now > ev.monsterBefore.wander.until
        THEN Picked
        ELSE monster.wander = ev.monsterBefore.wander

\* two sampled points were rejected and the third was taken
C39_Witness ==
  /\ ev.probe = "pickWanderTarget"
  /\ Accepted # {} /\ FirstAccepted = 2
  /\ monster.wander.x = SampleAt(2).x /\ monster.wander.y = SampleAt(2).y
\* every sampled point was rejected
C39_WitnessCentre ==
  /\ ev.probe = "pickWanderTarget" /\ Accepted = {}
  /\ monster.wander.x = W \div 2 /\ monster.wander.until = ev.now + 1000
\* the patrolling dragon picks a new wander target, or keeps the one that
\* expires at this very moment
C39_WitnessPatrol ==
  /\ ev.probe = "updateMonster" /\ ~ev.sees
  /\ ev.now > ev.monsterBefore.wander.until
  /\ monster.wander # ev.monsterBefore.wander
C39_WitnessKept ==
  /\ ev.probe = "updateMonster" /\ ~ev.sees
  /\ ev.now = ev.monsterBefore.wander.until
  /\ monster.wander = ev.monsterBefore.wander

\* C40: the frame time is at most 33 ms, so the place of an entity after
\* moveEntity is never further from its place before than its speed (with
\* the sprint multiplier, for the player) covers in 33 ms.
MoverOf(e) == IF e.w = playerPx.w THEN playerPx ELSE monsterPx
\* the square of the distance covered, in px * px
Covered2 ==
  (ev.out.x - ev.ent.x) * (ev.out.x - ev.ent.x)
    + (ev.out.y - ev.ent.y) * (ev.out.y - ev.ent.y)
\* speed * 0.033 s, in hundredths of a px
Allowed == (MoverOf(ev.ent).speed * MoverOf(ev.ent).mult * DT_CAP) \div 1000
C40_StepWithinSpeed ==
  ev.probe = "moveEntity" => Covered2 * 10000 <= Allowed * Allowed

====
